---- MODULE Spec2Model ----
(***************************************************************************)
(* The agent event/orchestration framework of the incident war room:       *)
(* BaseAgent (agents/base.py), IncidentCommander (agents/commander.py) and *)
(* the ReasoningLLM streaming client (agents/llm_wrapper.py), as one       *)
(* asyncio event loop running coroutines over one IncidentCommander.       *)
(*                                                                         *)
(* A coroutine is a task with a program counter.  Between two suspension   *)
(* points (asyncio.sleep, an awaited backend call, an awaited tool) a task *)
(* runs alone: cur names the task that holds the loop.  emit_event is a    *)
(* synchronous call: while em holds an event, only the listener loop       *)
(* steps.                                                                  *)
(*                                                                         *)
(* Text is a sequence of pieces: literals of the source are one piece,     *)
(* input text (symptoms, LLM chunks) is one piece per character, and       *)
(* concatenation is \o.                                                    *)
(***************************************************************************)
EXTENDS Integers, Sequences, FiniteSets, TLC

VARIABLES
    event_listeners,       \* BaseAgent.event_listeners: registrations, in order
    tools,                 \* BaseAgent.tools: name -> callable
    context,               \* BaseAgent.context: dict
    conversation_history,  \* BaseAgent.conversation_history
    llm_client,            \* BaseAgent.llm_client: "None" or "ReasoningLLM"
    investigation_phase,   \* IncidentCommander.investigation_phase
    theories,              \* IncidentCommander.theories
    assigned_tasks,        \* IncidentCommander.assigned_tasks
    tasks,                 \* the coroutines the driver started
    cur,                   \* the task holding the event loop, 0 when none does
    em,                    \* the latest emit_event call and its listener invocations
    emitted,               \* the number of events constructed so far
    seen,                  \* per registration, the number of the last event it was called with
    faults                 \* the failures injected so far (listener, backend, tool)

vars == <<event_listeners, tools, context, conversation_history, llm_client,
          investigation_phase, theories, assigned_tasks, tasks, cur, em,
          emitted, seen, faults>>

agentVars == <<event_listeners, tools, context, conversation_history, llm_client,
               investigation_phase, theories, assigned_tasks>>

(***************************************************************************)
(* Bounds of the model.                                                    *)
(***************************************************************************)
MaxListeners == 2
MaxTasks == 2
MaxDeltas == 2
MaxTheories == 1
MaxFaults == 1
MaxClientDeltas == 4
MaxReceived == 2
MaxDriverEmitted == 7

TaskIds == 1..MaxTasks
Driver == 0 - 1

(***************************************************************************)
(* Text.                                                                   *)
(***************************************************************************)
T(s) == <<s>>

\* Characters are one-character strings; the alphabet is the code points up to
\* U+00FF, the ones a string of this module can hold.
\* the characters of the alphabet that str.lower() changes, and what it
\* changes them to: A-Z and the Latin-1 capitals U+00C0-U+00DE but U+00D7
UpperCase == <<"A","B","C","D","E","F","G","H","I","J","K","L","M",
               "N","O","P","Q","R","S","T","U","V","W","X","Y","Z",
               "À","Á","Â","Ã","Ä","Å","Æ","Ç","È","É","Ê","Ë","Ì","Í","Î",
               "Ï","Ð","Ñ","Ò","Ó","Ô","Õ","Ö","Ø","Ù","Ú","Û","Ü","Ý","Þ">>
LowerCase == <<"a","b","c","d","e","f","g","h","i","j","k","l","m",
               "n","o","p","q","r","s","t","u","v","w","x","y","z",
               "à","á","â","ã","ä","å","æ","ç","è","é","ê","ë","ì","í","î",
               "ï","ð","ñ","ò","ó","ô","õ","ö","ø","ù","ú","û","ü","ý","þ">>

LowerChar(c) ==
    IF \E i \in DOMAIN UpperCase : UpperCase[i] = c
    THEN LowerCase[CHOOSE i \in DOMAIN UpperCase : UpperCase[i] = c]
    ELSE c

\* str.lower()
Lower(s) == [i \in 1..Len(s) |-> LowerChar(s[i])]

\* sub in s
Contains(sub, s) ==
    \E i \in 1..(Len(s) - Len(sub) + 1) : SubSeq(s, i, i + Len(sub) - 1) = sub

\* the characters of the alphabet str.strip() removes: space, \t, \n, \r,
\* \f, U+000B, U+001C-U+001F, U+0085 and U+00A0
Whitespace == {" ", "\n", "\t", "\r", "\f", "", "", "", "", "", "", " "}

RECURSIVE LStrip(_)
LStrip(s) == IF s # <<>> /\ Head(s) \in Whitespace THEN LStrip(Tail(s)) ELSE s

RECURSIVE RStrip(_)
RStrip(s) ==
    IF s # <<>> /\ s[Len(s)] \in Whitespace
    THEN RStrip(SubSeq(s, 1, Len(s) - 1))
    ELSE s

\* a trim of the leading whitespace only
StripLeading(s) == LStrip(s)

\* str.strip()
Strip(s) == RStrip(LStrip(s))

\* sep.join(parts), parts a sequence of one-piece names
RECURSIVE Join(_, _)
Join(parts, sep) ==
    IF parts = <<>> THEN <<>>
    ELSE IF Len(parts) = 1 THEN <<parts[1]>>
    ELSE <<parts[1], sep>> \o Join(Tail(parts), sep)

\* "".join(parts), parts a sequence of texts
RECURSIVE Concat(_)
Concat(parts) == IF parts = <<>> THEN <<>> ELSE Head(parts) \o Concat(Tail(parts))

LATENCY == <<"l","a","t","e","n","c","y">>
ERROR == <<"e","r","r","o","r">>

(***************************************************************************)
(* Dicts are functions; {} is the empty function.                          *)
(***************************************************************************)
EmptyDict == <<>>

\* d.get(k, default)
Get(d, k, default) == IF k \in DOMAIN d THEN d[k] ELSE default

\* d.update(k=v) and d[k] = v
Put(d, k, v) == [x \in (DOMAIN d) \cup {k} |-> IF x = k THEN v ELSE d[x]]

(***************************************************************************)
(* Inputs of the driver.                                                   *)
(***************************************************************************)
IncLatency ==
    [id |-> T("INC-1"), symptom |-> <<"A","P","I"," ","L","a","t","e","n","c","y">>,
     severity |-> T("high"), service |-> T("user-api"), impact |-> T("slow")]
IncError ==
    [id |-> T("INC-2"), symptom |-> <<"5","0","0"," ","E","r","r","o","r","s">>,
     severity |-> T("low")]
IncBoth ==
    [symptom |-> <<"e","r","r","o","r"," ","l","a","t","e","n","c","y">>]
IncNoSymptom == [service |-> T("cart")]

Contexts ==
    { EmptyDict,
      [incident |-> EmptyDict],
      [incident |-> IncLatency],
      [incident |-> IncError],
      [incident |-> IncBoth],
      [incident |-> IncNoSymptom] }

\* listeners: "viz" always returns; "flaky" may raise on any call
ListenerIds == {"viz", "flaky"}
ListenerMayRaise(l) == l = "flaky"

Theories == { [agent |-> T("Code Detective"), description |-> T("bad deploy")] }

(***************************************************************************)
(* Events (AgentEvent) and errors.                                         *)
(***************************************************************************)
AgentName == "Commander"

\* AgentEvent.__init__: metadata or {}; id stands for the object's identity
AgentEvent(etype, content, metadata, id) ==
    [agent_name |-> AgentName, event_type |-> etype, content |-> content,
     metadata |-> metadata, id |-> id]

NoErr == [cls |-> "None", msg |-> <<>>]
ListenerError == [cls |-> "ListenerError", msg |-> T("listener raised")]
BackendError == [cls |-> "BackendError", msg |-> T("backend failed")]
ToolError == [cls |-> "ToolError", msg |-> T("tool failed")]

NoResult == [kind |-> "none"]
NoEm == [state |-> "none"]

(***************************************************************************)
(* Tasks.                                                                  *)
(***************************************************************************)
IdleTask ==
    [kind |-> "none", pc |-> "idle", status |-> "idle",
     ctx |-> EmptyDict,        \* run(context)
     incident |-> EmptyDict,   \* run: incident
     theories0 |-> 0,          \* the number of theories received when run began
     dincident |-> EmptyDict,  \* determine_root_cause: incident
     prio |-> <<>>,            \* assess_incident: investigation_priority
     todo |-> <<>>,            \* delegate_investigation: areas still to iterate
     root |-> <<>>,            \* determine_root_cause: root_cause
     conf |-> 0,               \* determine_root_cause: confidence, in percent
     exc |-> NoErr,            \* determine_root_cause: e
     inTry |-> FALSE,          \* inside the try of determine_root_cause
     tool |-> "",              \* use_tool: tool_name
     prompt |-> <<>>,          \* llm_reason: prompt
     sysctx |-> <<>>,          \* llm_reason: system_context
     emitR |-> TRUE,           \* llm_reason: emit_reasoning
     messages |-> <<>>,        \* llm_reason: messages
     rparts |-> <<>>,          \* llm_reason: reasoning_parts
     cparts |-> <<>>,          \* llm_reason: content_parts
     yields |-> <<>>,          \* think_and_respond: elements of the current delta not yet consumed
     pulled |-> 0,             \* think_and_respond: deltas received
     deltas |-> <<>>,          \* the chunks the backend streamed to this coroutine, in order
     chunks |-> <<>>,          \* llm_reason: the elements received from the client, in order
     response |-> <<>>,        \* determine_root_cause: response
     events |-> <<>>,          \* the events this coroutine constructed, in order
     sent |-> <<>>,            \* the completion calls this coroutine issued
     invoked |-> <<>>,         \* the tool invocations this coroutine made
     result |-> NoResult,
     error |-> NoErr]

\* labels at which a coroutine is suspended in the event loop
WaitPcs == {"run", "sy0", "sy2", "tr_created", "tr_wait", "ut_ret", "lr0", "ut0",
            "ts0", "sq0", "tc0"}

Active(t) == tasks[t].status = "active"
Ended(t) == tasks[t].status \in {"returned", "raised"}
NoActiveTask == \A t \in TaskIds : ~Active(t)
NoTaskStarted == \A t \in TaskIds : tasks[t].status = "idle"

\* an emit_event that queued its notifications and let the caller go on
NoPendingEmitQueued == TRUE

\* emit_event has no await: nothing else runs while it notifies listeners
NoPendingEmit == em.state # "running"

\* the event loop runs one coroutine at a time, up to its next suspension
At(t, label) ==
    /\ Active(t)
    /\ tasks[t].pc = label
    /\ NoPendingEmit
    /\ cur \in {0, t}

LoopIdle == cur = 0 /\ NoPendingEmit

\* what a listener can read of the agent while it handles an event
AgentView ==
    [phase |-> investigation_phase, assigned |-> Len(assigned_tasks),
     theories |-> Len(theories), history |-> Len(conversation_history),
     context |-> context]

Init ==
    /\ event_listeners = <<>>
    /\ tools = EmptyDict
    /\ context = EmptyDict
    /\ conversation_history = <<>>
    /\ llm_client \in {"None", "ReasoningLLM"}
    /\ investigation_phase = "initial"
    /\ theories = <<>>
    /\ assigned_tasks = <<>>
    /\ tasks = [t \in TaskIds |-> IdleTask]
    /\ cur = 0
    /\ em = NoEm
    /\ emitted = 0
    /\ seen = <<>>
    /\ faults = 0

(***************************************************************************)
(* emit_event: construct the event, then call the listeners in order.      *)
(***************************************************************************)
\* who holds the loop once owner's step is over
Holder(owner, ts, e) ==
    IF e.state = "running" THEN owner
    ELSE IF owner = Driver THEN 0
    ELSE IF ts[owner].status # "active" \/ ts[owner].pc \in WaitPcs THEN 0
    ELSE owner

\* raise err in task t with no except clause around the call
ThrowUncaught(ts, t, err) ==
    IF t = Driver THEN ts
    ELSE [ts EXCEPT ![t].pc = "end", ![t].status = "raised", ![t].error = err]

\* raise err in task t: caught by the except of determine_root_cause when t
\* is inside its try, else it ends the coroutine
Throw(ts, t, err) ==
    IF t = Driver THEN ts
    ELSE IF ts[t].inTry
    THEN [ts EXCEPT ![t].pc = "dr_except", ![t].exc = err, ![t].inTry = FALSE]
    ELSE [ts EXCEPT ![t].pc = "end", ![t].status = "raised", ![t].error = err]

\* the first lines of emit_event, entered by owner from function fn of
\* operation op: the event is constructed, no listener is called yet
EmitCall(owner, op, fn, ev) ==
    [state |-> IF event_listeners = <<>> THEN "returned" ELSE "running",
     ev |-> ev, num |-> emitted + 1, owner |-> owner, op |-> op, fn |-> fn,
     view |-> AgentView', nreg |-> Len(event_listeners), i |-> 1, calls |-> <<>>]

Emit(owner, op, fn, ev) ==
    /\ em' = EmitCall(owner, op, fn, ev)
    /\ emitted' = emitted + 1
    /\ UNCHANGED seen

NoEmit == UNCHANGED <<em, emitted, seen>>

\* a loop that steps over every other registration
NextListenerSkipping(i) == i + 2

\* for listener in self.event_listeners
NextListener(i) == i + 1

\* listener(event), as the listener sees it
Invocation ==
    [reg |-> em.i, listener |-> event_listeners[em.i], ev |-> em.ev,
     view |-> AgentView, latest |-> emitted, prev |-> seen[em.i]]

\* listener(event) returns
DeliverReturn ==
    /\ em.state = "running"
    /\ em' = [em EXCEPT !.calls = Append(@, Invocation),
                        !.i = NextListener(@),
                        !.state = IF NextListener(em.i) > Len(event_listeners)
                                  THEN "returned" ELSE "running"]
    /\ seen' = [seen EXCEPT ![em.i] = em.num]
    /\ cur' = Holder(em.owner, tasks, em')
    /\ UNCHANGED <<agentVars, tasks, emitted, faults>>

\* an emit_event that ends at the raising listener and drops the exception
DeliverRaiseDropped ==
    /\ em.state = "running"
    /\ ListenerMayRaise(event_listeners[em.i])
    /\ faults < MaxFaults
    /\ faults' = faults + 1
    /\ em' = [em EXCEPT !.calls = Append(@, Invocation), !.state = "raised"]
    /\ seen' = [seen EXCEPT ![em.i] = em.num]
    /\ UNCHANGED tasks
    /\ cur' = Holder(em.owner, tasks', em')
    /\ UNCHANGED <<agentVars, emitted>>

\* listener(event) raises: the exception leaves emit_event
DeliverRaise ==
    /\ em.state = "running"
    /\ ListenerMayRaise(event_listeners[em.i])
    /\ faults < MaxFaults
    /\ faults' = faults + 1
    /\ em' = [em EXCEPT !.calls = Append(@, Invocation), !.state = "raised"]
    /\ seen' = [seen EXCEPT ![em.i] = em.num]
    /\ tasks' = Throw(tasks, em.owner, ListenerError)
    /\ cur' = Holder(em.owner, tasks', em')
    /\ UNCHANGED <<agentVars, emitted>>

(***************************************************************************)
(* The driver: registration, and starting coroutines.                      *)
(***************************************************************************)
\* add_event_listener, called by the driver while no coroutine holds the loop
AddEventListener(l) ==
    /\ LoopIdle
    /\ Len(event_listeners) < MaxListeners
    /\ event_listeners' = Append(event_listeners, l)
    /\ seen' = Append(seen, 0)
    /\ UNCHANGED <<tools, context, conversation_history, llm_client,
                   investigation_phase, theories, assigned_tasks, tasks, cur, em,
                   emitted, faults>>

\* the slot a new coroutine takes
FreeSlot(t) ==
    /\ tasks[t].status = "idle"
    /\ \A u \in TaskIds : u < t => tasks[u].status # "idle"

\* asyncio schedules commander.run(ctx)
StartRun(t, ctx) ==
    /\ LoopIdle
    /\ FreeSlot(t)
    /\ tasks' = [tasks EXCEPT ![t] =
           [IdleTask EXCEPT !.kind = "run", !.pc = "run", !.status = "active", !.ctx = ctx]]
    /\ UNCHANGED <<agentVars, cur, em, emitted, seen, faults>>

\* one step of task t that changes only the task and emits nothing
Local(t, task) ==
    /\ tasks' = [tasks EXCEPT ![t] = task]
    /\ NoEmit
    /\ cur' = Holder(t, tasks', em')
    /\ UNCHANGED faults

\* one step of task t that changes the task and calls emit_event
Emitting(t, task, op, fn, etype, content, metadata) ==
    LET ev == AgentEvent(etype, content, metadata, <<t, Len(task.events) + 1>>) IN
    /\ tasks' = [tasks EXCEPT ![t] =
           [task EXCEPT !.events = Append(@, [ev |-> ev, op |-> op, fn |-> fn])]]
    /\ Emit(t, op, fn, ev)
    /\ cur' = Holder(t, tasks', em')
    /\ UNCHANGED faults

\* task t raises err
Raising(t, err) ==
    /\ tasks' = Throw(tasks, t, err)
    /\ NoEmit
    /\ cur' = Holder(t, tasks', em')

\* an injected failure
Fault == faults < MaxFaults /\ faults' = faults + 1

(***************************************************************************)
(* IncidentCommander.run and its four phases.                              *)
(***************************************************************************)
\* a run that keeps the incident an earlier run stored
RunStartKeepsIncident(t) ==
    /\ At(t, "run")
    /\ LET incident == Get(context, "incident", Get(tasks[t].ctx, "incident", EmptyDict)) IN
       /\ context' = Put(context, "incident", incident)
       /\ Local(t, [tasks[t] EXCEPT !.pc = "as1", !.incident = incident,
                                    !.theories0 = Len(theories)])
    /\ UNCHANGED <<event_listeners, tools, conversation_history, llm_client,
                   investigation_phase, theories, assigned_tasks>>

\* run: incident = context.get("incident", {}); self.update_context(incident=incident)
RunStart(t) ==
    /\ At(t, "run")
    /\ LET incident == Get(tasks[t].ctx, "incident", EmptyDict) IN
       /\ context' = Put(context, "incident", incident)
       /\ Local(t, [tasks[t] EXCEPT !.pc = "as1", !.incident = incident,
                                    !.theories0 = Len(theories)])
    /\ UNCHANGED <<event_listeners, tools, conversation_history, llm_client,
                   investigation_phase, theories, assigned_tasks>>

\* assess_incident: self.think("Beginning incident assessment...")
Assess1(t) ==
    /\ At(t, "as1")
    /\ UNCHANGED agentVars
    /\ Emitting(t, [tasks[t] EXCEPT !.pc = "as2"], "assess", "assess_incident",
                "THINKING", T("Beginning incident assessment..."), EmptyDict)

\* assess_incident: the incident details and the thought naming them
Assess2(t) ==
    /\ At(t, "as2")
    /\ UNCHANGED agentVars
    /\ LET incident == tasks[t].incident
           symptom == Get(incident, "symptom", T("Unknown issue"))
           severity == Get(incident, "severity", T("unknown"))
           affected_service == Get(incident, "service", T("unknown"))
       IN Emitting(t, [tasks[t] EXCEPT !.pc = "as3"], "assess", "assess_incident",
                   "THINKING", T("Incident: ") \o symptom \o T(" on ") \o affected_service,
                   [severity |-> severity])

\* a classification that tests "error" before "latency"
ClassifyErrorFirst(symptom) ==
    IF Contains(ERROR, Lower(symptom))
    THEN [note |-> T("Error spike detected. Likely code or infrastructure issue."),
          priority |-> <<"logs", "recent_changes", "metrics">>]
    ELSE IF Contains(LATENCY, Lower(symptom))
    THEN [note |-> T("Latency issue detected. Likely performance-related."),
          priority |-> <<"metrics", "recent_changes", "logs">>]
    ELSE [note |-> T("Unclear symptom. Need comprehensive investigation."),
          priority |-> <<"logs", "metrics", "recent_changes">>]

\* assess_incident: the classification of the symptom
Classify(symptom) ==
    IF Contains(LATENCY, Lower(symptom))
    THEN [note |-> T("Latency issue detected. Likely performance-related."),
          priority |-> <<"metrics", "recent_changes", "logs">>]
    ELSE IF Contains(ERROR, Lower(symptom))
    THEN [note |-> T("Error spike detected. Likely code or infrastructure issue."),
          priority |-> <<"logs", "recent_changes", "metrics">>]
    ELSE [note |-> T("Unclear symptom. Need comprehensive investigation."),
          priority |-> <<"logs", "metrics", "recent_changes">>]

Assess3(t) ==
    /\ At(t, "as3")
    /\ UNCHANGED agentVars
    /\ LET c == Classify(Get(tasks[t].incident, "symptom", T("Unknown issue"))) IN
       Emitting(t, [tasks[t] EXCEPT !.pc = "as4", !.prio = c.priority],
                "assess", "assess_incident", "THINKING", c.note, EmptyDict)

\* assess_incident: store the priority and decide
Assess4(t) ==
    /\ At(t, "as4")
    /\ context' = Put(context, "investigation_priority", tasks[t].prio)
    /\ UNCHANGED <<event_listeners, tools, conversation_history, llm_client,
                   investigation_phase, theories, assigned_tasks>>
    /\ Emitting(t, [tasks[t] EXCEPT !.pc = "dl0"], "assess", "assess_incident",
                "DECISION", T("Investigation priority: ") \o Join(tasks[t].prio, " > "),
                [priority |-> tasks[t].prio])

\* a delegation that starts from an empty list of tasks
Delegate0ClearingTasks(t) ==
    /\ At(t, "dl0")
    /\ tasks[t].kind \in {"run", "delegate"}
    /\ investigation_phase' = "delegating"
    /\ assigned_tasks' = <<>>
    /\ UNCHANGED <<event_listeners, tools, context, conversation_history, llm_client,
                   theories>>
    /\ LET priority == Get(context, "investigation_priority", <<>>) IN
       Local(t, [tasks[t] EXCEPT !.todo = priority,
                                 !.pc = IF priority = <<>> THEN "sy0" ELSE "dl1"])

\* delegate_investigation: enter the phase and read the stored priority
Delegate0(t) ==
    /\ At(t, "dl0")
    /\ tasks[t].kind \in {"run", "delegate"}
    /\ investigation_phase' = "delegating"
    /\ UNCHANGED <<event_listeners, tools, context, conversation_history, llm_client,
                   theories, assigned_tasks>>
    /\ LET priority == Get(context, "investigation_priority", <<>>) IN
       Local(t, [tasks[t] EXCEPT !.todo = priority,
                                 !.pc = IF priority = <<>> THEN "sy0" ELSE "dl1"])

\* delegate_investigation: self.think(f"Need to investigate: {area}")
Delegate1(t) ==
    /\ At(t, "dl1")
    /\ UNCHANGED agentVars
    /\ Emitting(t, [tasks[t] EXCEPT !.pc = "dl2"], "delegate", "delegate_investigation",
                "THINKING", <<"Need to investigate: ", Head(tasks[t].todo)>>, EmptyDict)

\* a mapping without the entry for git_history
MapAreaToAgentWithoutGit(area) ==
    CASE area = "metrics" -> "System Investigator"
      [] area = "logs" -> "System Investigator"
      [] area = "recent_changes" -> "Code Detective"
      [] OTHER -> "General Investigator"

\* _map_area_to_agent
MapAreaToAgent(area) ==
    CASE area = "metrics" -> "System Investigator"
      [] area = "logs" -> "System Investigator"
      [] area = "recent_changes" -> "Code Detective"
      [] area = "git_history" -> "Code Detective"
      [] OTHER -> "General Investigator"

\* delegate_investigation: the delegation record
DelegationTask(area) ==
    [area |-> area, assigned_to |-> MapAreaToAgent(area), status |-> "pending"]

\* delegate_investigation: append the record and emit the ACTION; after the
\* last area, await asyncio.sleep(0.5)
Delegate2(t) ==
    /\ At(t, "dl2")
    /\ LET area == Head(tasks[t].todo)
           task == DelegationTask(area)
           rest == Tail(tasks[t].todo)
       IN /\ assigned_tasks' = Append(assigned_tasks, task)
          /\ UNCHANGED <<event_listeners, tools, context, conversation_history,
                         llm_client, investigation_phase, theories>>
          /\ Emitting(t, [tasks[t] EXCEPT !.todo = rest,
                                          !.pc = IF rest = <<>> THEN "sy0" ELSE "dl1"],
                      "delegate", "delegate_investigation", "ACTION",
                      <<"Delegating ", area, " investigation to ", task.assigned_to>>,
                      [task |-> task])

\* synthesize_findings: enter the phase, think, then await asyncio.sleep(0.3)
Synthesize0(t) ==
    /\ At(t, "sy0")
    /\ tasks[t].kind \in {"run", "synthesize"}
    /\ investigation_phase' = "synthesizing"
    /\ UNCHANGED <<event_listeners, tools, context, conversation_history, llm_client,
                   theories, assigned_tasks>>
    /\ Emitting(t, [tasks[t] EXCEPT !.pc = "sy2"], "synthesize", "synthesize_findings",
                "THINKING", T("Synthesizing findings from investigation teams..."),
                EmptyDict)

\* a run that returns after synthesize_findings, without concluding
Synthesize2ThenReturn(t) ==
    /\ At(t, "sy2")
    /\ UNCHANGED agentVars
    /\ Emitting(t, [tasks[t] EXCEPT !.pc = "run_ret"], "synthesize", "synthesize_findings",
                "OBSERVATION", T("Received theories from investigation teams"),
                [theory_count |-> Len(theories)])

\* an observation that reports the theories there were when run began
Synthesize2CountAtStart(t) ==
    /\ At(t, "sy2")
    /\ UNCHANGED agentVars
    /\ Emitting(t, [tasks[t] EXCEPT !.pc = "dr0"], "synthesize", "synthesize_findings",
                "OBSERVATION", T("Received theories from investigation teams"),
                [theory_count |-> tasks[t].theories0])

\* synthesize_findings: the observation after the sleep
Synthesize2(t) ==
    /\ At(t, "sy2")
    /\ UNCHANGED agentVars
    /\ Emitting(t, [tasks[t] EXCEPT !.pc = "dr0"], "synthesize", "synthesize_findings",
                "OBSERVATION", T("Received theories from investigation teams"),
                [theory_count |-> Len(theories)])

(***************************************************************************)
(* delegate_investigation called by the driver, as the interactive demo    *)
(* does, on a priority the driver stored with update_context.              *)
(***************************************************************************)
StoredPriorities ==
    { <<"git_history", "network", "metrics">>,
      <<"logs", "recent_changes">>,
      <<"metrics", "metrics">> }

\* update_context(investigation_priority=priority)
UpdateContext(priority) ==
    /\ LoopIdle
    /\ context' = Put(context, "investigation_priority", priority)
    /\ UNCHANGED <<event_listeners, tools, conversation_history, llm_client,
                   investigation_phase, theories, assigned_tasks, tasks, cur, em,
                   emitted, seen, faults>>

\* asyncio schedules commander.delegate_investigation(incident)
StartDelegate(t, incident) ==
    /\ LoopIdle
    /\ FreeSlot(t)
    /\ tasks' = [tasks EXCEPT ![t] =
           [IdleTask EXCEPT !.kind = "delegate", !.pc = "dl0", !.status = "active",
                            !.incident = incident]]
    /\ UNCHANGED <<agentVars, cur, em, emitted, seen, faults>>

\* delegate_investigation called on its own: the sleep is over, it returns
DelegateReturn(t) ==
    /\ At(t, "sy0")
    /\ tasks[t].kind = "delegate"
    /\ UNCHANGED agentVars
    /\ Local(t, [tasks[t] EXCEPT !.pc = "end", !.status = "returned"])

\* where the three other phase methods begin, and where they are over
PhaseEntry(phase) ==
    CASE phase = "assess" -> "as1"
      [] phase = "synthesize" -> "sy0"
      [] phase = "conclude" -> "dr0"

PhaseExit(phase) ==
    CASE phase = "assess" -> "dl0"
      [] phase = "synthesize" -> "dr0"
      [] OTHER -> "none"

\* asyncio schedules commander.assess_incident(incident),
\* commander.synthesize_findings() or commander.determine_root_cause()
StartPhase(t, phase, incident) ==
    /\ LoopIdle
    /\ FreeSlot(t)
    /\ tasks' = [tasks EXCEPT ![t] =
           [IdleTask EXCEPT !.kind = phase, !.pc = PhaseEntry(phase), !.status = "active",
                            !.incident = incident]]
    /\ UNCHANGED <<agentVars, cur, em, emitted, seen, faults>>

\* assess_incident or synthesize_findings called on its own is over
PhaseReturn(t) ==
    /\ tasks[t].kind \in {"assess", "synthesize"}
    /\ At(t, PhaseExit(tasks[t].kind))
    /\ UNCHANGED agentVars
    /\ Local(t, [tasks[t] EXCEPT !.pc = "end", !.status = "returned"])

(***************************************************************************)
(* determine_root_cause, llm_reason and think_and_respond.                 *)
(***************************************************************************)
ConfLLM == 85
ConfFallback == 50

\* f"{confidence:.0%}"
Percent(c) == CASE c = 85 -> "85%" [] c = 50 -> "50%" [] OTHER -> "?%"

Model == "nvidia/llama-3.3-nemotron-super-49b-v1.5"

\* determine_root_cause: enter the phase and think
Conclude0(t) ==
    /\ At(t, "dr0")
    /\ tasks[t].kind \in {"run", "conclude"}
    /\ investigation_phase' = "concluding"
    /\ UNCHANGED <<event_listeners, tools, context, conversation_history, llm_client,
                   theories, assigned_tasks>>
    /\ Emitting(t, [tasks[t] EXCEPT !.pc = "dr1"], "conclude", "determine_root_cause",
                "THINKING", T("Analyzing all evidence to determine root cause..."),
                EmptyDict)

\* determine_root_cause: the prompt
Prompt(incident, priority) ==
    T("\nYou are an incident commander analyzing a production incident.\n\nINCIDENT DETAILS:\n- ID: ")
      \o Get(incident, "id", T("unknown"))
      \o T("\n- Symptom: ") \o Get(incident, "symptom", T("unknown"))
      \o T("\n- Severity: ") \o Get(incident, "severity", T("unknown"))
      \o T("\n- Service: ") \o Get(incident, "service", T("unknown"))
      \o T("\n- Impact: ") \o Get(incident, "impact", T("unknown"))
      \o T("\n\nINVESTIGATION AREAS EXAMINED:\n") \o Join(priority, ", ")
      \o T("\n\nBased on the incident symptoms and investigation areas, determine the most likely root cause.\nProvide your analysis and the root cause determination.\n")

\* determine_root_cause: the system context
SystemContext ==
    T("You are a senior SRE and incident commander with deep expertise in:\n- Distributed systems debugging\n- Performance analysis\n- Root cause analysis\n- Production incident response\n\nAnalyze incidents systematically and provide actionable root cause determinations.")

\* determine_root_cause with an LLM client: read the incident, think, build the prompt
ConcludeUseLLM(t) ==
    /\ At(t, "dr1")
    /\ llm_client # "None"
    /\ UNCHANGED agentVars
    /\ LET incident == Get(context, "incident", EmptyDict) IN
       Emitting(t, [tasks[t] EXCEPT
                      !.pc = "dr_call", !.dincident = incident,
                      !.prompt = Prompt(incident, Get(context, "investigation_priority", <<>>)),
                      !.sysctx = SystemContext, !.emitR = TRUE],
                "conclude", "determine_root_cause", "THINKING",
                T("Using LLM reasoning to analyze incident..."), EmptyDict)

\* determine_root_cause without an LLM client
ConcludeNoLLM(t) ==
    /\ At(t, "dr1")
    /\ llm_client = "None"
    /\ UNCHANGED agentVars
    /\ Local(t, [tasks[t] EXCEPT !.pc = "dr_fb",
                                 !.dincident = Get(context, "incident", EmptyDict)])

\* llm_reason: the messages
BuildMessages(prompt, system_context) ==
    (IF system_context # <<>>
     THEN <<[role |-> "system", content |-> system_context]>>
     ELSE <<>>) \o <<[role |-> "user", content |-> prompt]>>

\* a check that looks at the first message only
SentMessagesFirstOnly(messages) ==
    IF messages # <<>> /\ messages[1].role = "system"
    THEN messages
    ELSE <<[role |-> "system", content |-> T("/think")]>> \o messages

\* think_and_respond: the messages sent to the backend
SentMessages(messages) ==
    IF \E i \in 1..Len(messages) : messages[i].role = "system"
    THEN messages
    ELSE <<[role |-> "system", content |-> T("/think")]>> \o messages

\* llm_reason up to the first suspension: build the messages, start the
\* generator, which issues the completion call and awaits it
CompletionCall(messages) ==
    [messages |-> SentMessages(messages), model |-> Model, stream |-> TRUE]

BeginReason(t, task) ==
    LET messages == BuildMessages(task.prompt, task.sysctx) IN
    [task EXCEPT !.pc = "tr_created", !.messages = messages, !.rparts = <<>>,
                 !.cparts = <<>>, !.yields = <<>>, !.pulled = 0,
                 !.sent = Append(@, CompletionCall(messages))]

\* a determine_root_cause that awaits llm_reason outside of a try
ConcludeCallLLMNoTry(t) ==
    /\ At(t, "dr_call")
    /\ UNCHANGED agentVars
    /\ Local(t, BeginReason(t, tasks[t]))

\* determine_root_cause: try: response = await self.llm_reason(prompt, system_context=...)
ConcludeCallLLM(t) ==
    /\ At(t, "dr_call")
    /\ UNCHANGED agentVars
    /\ Local(t, BeginReason(t, [tasks[t] EXCEPT !.inTry = TRUE]))

\* the backend fails the completion call
BackendCreateRaise(t) ==
    /\ At(t, "tr_created")
    /\ UNCHANGED agentVars
    /\ Fault
    /\ Raising(t, BackendError)

\* the backend accepts the completion call; the generator awaits the first chunk
BackendCreateOk(t) ==
    /\ At(t, "tr_created")
    /\ tasks[t].sent[Len(tasks[t].sent)].stream
    /\ UNCHANGED agentVars
    /\ Local(t, [tasks[t] EXCEPT !.pc = "tr_wait"])

\* the deltas a backend chunk can carry; choices FALSE is a chunk with no choices
Deltas ==
    { [choices |-> TRUE, reasoning_content |-> <<"a">>, content |-> <<>>],
      [choices |-> TRUE, reasoning_content |-> <<>>, content |-> <<" ", "c">>],
      [choices |-> TRUE, reasoning_content |-> <<"b">>, content |-> <<"d", "\n">>],
      [choices |-> FALSE, reasoning_content |-> <<"x">>, content |-> <<"y">>] }

\* a generator that tags by position: first reasoning, then content
ToYieldsByPosition(d) ==
    IF ~d.choices THEN <<>>
    ELSE LET texts == SelectSeq(<<d.reasoning_content, d.content>>, LAMBDA x : x # <<>>) IN
         [i \in 1..Len(texts) |->
             [type |-> IF i = 1 THEN "reasoning" ELSE "content",
              text |-> texts[i], model |-> Model]]

\* think_and_respond, stream mode: the elements one backend chunk yields
ToYields(d) ==
    IF ~d.choices THEN <<>>
    ELSE (IF d.reasoning_content # <<>>
          THEN <<[type |-> "reasoning", text |-> d.reasoning_content, model |-> Model]>>
          ELSE <<>>)
         \o (IF d.content # <<>>
             THEN <<[type |-> "content", text |-> d.content, model |-> Model]>>
             ELSE <<>>)

\* the coroutines that drain the generator through llm_reason
ThroughAgent(kind) == kind \in {"run", "conclude", "reason"}

\* the length of the streams considered
DeltaLimit(kind) == IF ThroughAgent(kind) THEN MaxDeltas ELSE MaxClientDeltas

\* where the consumer of the generator handles a yielded element
ChunkPc(kind) == IF ThroughAgent(kind) THEN "lr_chunk" ELSE "consume"

\* the backend streams a chunk
BackendDelta(t, d) ==
    /\ At(t, "tr_wait")
    /\ tasks[t].pulled < DeltaLimit(tasks[t].kind)
    /\ UNCHANGED agentVars
    /\ LET ys == ToYields(d) IN
       Local(t, [tasks[t] EXCEPT !.pulled = @ + 1, !.yields = ys,
                                 !.deltas = Append(@, d),
                                 !.pc = IF ys = <<>> THEN "tr_wait"
                                        ELSE ChunkPc(tasks[t].kind)])

\* a generator that answers a failure of the stream by issuing the call again
BackendRaiseRetried(t) ==
    /\ At(t, "tr_wait")
    /\ UNCHANGED agentVars
    /\ Fault
    /\ tasks' = [tasks EXCEPT ![t].pc = "tr_created",
                              ![t].sent = Append(@, tasks[t].sent[1])]
    /\ NoEmit
    /\ cur' = Holder(t, tasks', em')

\* an llm_reason that stores what it received when the stream fails
BackendRaiseStoringPartial(t) ==
    /\ At(t, "tr_wait")
    /\ conversation_history' =
          Append(conversation_history,
                 [prompt |-> tasks[t].prompt, reasoning |-> Concat(tasks[t].rparts),
                  response |-> Concat(tasks[t].cparts)])
    /\ UNCHANGED <<event_listeners, tools, context, llm_client, investigation_phase,
                   theories, assigned_tasks>>
    /\ Fault
    /\ Raising(t, BackendError)

\* the backend fails mid-stream
BackendRaise(t) ==
    /\ At(t, "tr_wait")
    /\ UNCHANGED agentVars
    /\ Fault
    /\ Raising(t, BackendError)

\* llm_reason: the body of async for, on one yielded element
AfterChunk(task) ==
    [task EXCEPT !.yields = Tail(@), !.chunks = Append(@, Head(task.yields)),
                 !.pc = IF Tail(task.yields) = <<>> THEN "tr_wait" ELSE "lr_chunk"]

\* a loop that reports every element, reasoning or content
EmitsEveryChunk(task, chunk) == task.emitR

EmitsReasoning(task, chunk) == chunk.type = "reasoning" /\ task.emitR

ReasonOp(t) == IF tasks[t].kind \in {"run", "conclude"} THEN "conclude" ELSE "llm_reason"

LlmReasonChunkEmit(t) ==
    /\ At(t, "lr_chunk")
    /\ EmitsReasoning(tasks[t], Head(tasks[t].yields))
    /\ UNCHANGED agentVars
    /\ LET chunk == Head(tasks[t].yields) IN
       Emitting(t, [AfterChunk(tasks[t]) EXCEPT !.rparts = Append(@, chunk.text)],
                ReasonOp(t), "llm_reason", "THINKING", chunk.text,
                [llm_reasoning |-> TRUE])

LlmReasonChunkSilent(t) ==
    /\ At(t, "lr_chunk")
    /\ ~EmitsReasoning(tasks[t], Head(tasks[t].yields))
    /\ UNCHANGED agentVars
    /\ LET chunk == Head(tasks[t].yields) IN
       Local(t, IF chunk.type = "reasoning"
                THEN [AfterChunk(tasks[t]) EXCEPT !.rparts = Append(@, chunk.text)]
                ELSE IF chunk.type = "content"
                THEN [AfterChunk(tasks[t]) EXCEPT !.cparts = Append(@, chunk.text)]
                ELSE AfterChunk(tasks[t]))

\* a record that keeps the reasoning only when it was emitted as events
HistoryRecordOfEmitted(task) ==
    [prompt |-> task.prompt,
     reasoning |-> IF task.emitR THEN Concat(task.rparts) ELSE <<>>,
     response |-> Concat(task.cparts)]

\* llm_reason: the record stored in conversation_history
HistoryRecord(task) ==
    [prompt |-> task.prompt, reasoning |-> Concat(task.rparts),
     response |-> Concat(task.cparts)]

\* the stream ends: llm_reason stores the exchange and returns the content; in
\* determine_root_cause the stripped response is the root cause
LlmReasonDone(t) ==
    /\ At(t, "tr_wait")
    /\ ThroughAgent(tasks[t].kind)
    /\ conversation_history' = Append(conversation_history, HistoryRecord(tasks[t]))
    /\ UNCHANGED <<event_listeners, tools, context, llm_client, investigation_phase,
                   theories, assigned_tasks>>
    /\ LET full_content == Concat(tasks[t].cparts) IN
       Local(t, IF tasks[t].kind \in {"run", "conclude"}
                THEN [tasks[t] EXCEPT !.pc = "dr_conf", !.response = full_content,
                                      !.root = Strip(full_content), !.conf = ConfLLM,
                                      !.inTry = FALSE]
                ELSE [tasks[t] EXCEPT !.pc = "end", !.status = "returned",
                                      !.result = [kind |-> "text", text |-> full_content]])

\* an except clause that falls back without a note
ConcludeExceptSilent(t) ==
    /\ At(t, "dr_except")
    /\ UNCHANGED agentVars
    /\ Local(t, [tasks[t] EXCEPT !.pc = "dr_fb"])

\* determine_root_cause: except Exception as e
ConcludeExcept(t) ==
    /\ At(t, "dr_except")
    /\ UNCHANGED agentVars
    /\ Emitting(t, [tasks[t] EXCEPT !.pc = "dr_fb"], "conclude", "determine_root_cause",
                "THINKING",
                T("LLM reasoning failed: ") \o tasks[t].exc.msg
                  \o T(". Falling back to rule-based analysis."),
                EmptyDict)

RootUnknown == T("Unknown - requires deeper investigation")
RootLatency == T("Database connection pool exhaustion due to recent config change")
RootError == T("Increased error rate due to code deployment or external dependency failure")

\* a rule-based analysis that tests "error" before "latency"
FallbackCaseErrorFirst(incident) ==
    IF DOMAIN incident = {} THEN "empty"
    ELSE LET symptom == Lower(Get(incident, "symptom", <<>>)) IN
         IF Contains(ERROR, symptom) THEN "error"
         ELSE IF Contains(LATENCY, symptom) THEN "latency"
         ELSE "other"

\* _fallback_root_cause_analysis: the branch taken
FallbackCase(incident) ==
    IF DOMAIN incident = {} THEN "empty"
    ELSE LET symptom == Lower(Get(incident, "symptom", <<>>)) IN
         IF Contains(LATENCY, symptom) THEN "latency"
         ELSE IF Contains(ERROR, symptom) THEN "error"
         ELSE "other"

\* _fallback_root_cause_analysis: the value returned
FallbackRoot(incident) ==
    CASE FallbackCase(incident) = "latency" -> RootLatency
      [] FallbackCase(incident) = "error" -> RootError
      [] OTHER -> RootUnknown

\* the rule-based path on a latency symptom: the pattern thought, then the return
FallbackLatency(t) ==
    /\ At(t, "dr_fb")
    /\ FallbackCase(tasks[t].dincident) = "latency"
    /\ UNCHANGED agentVars
    /\ Emitting(t, [tasks[t] EXCEPT !.pc = "dr_conf", !.conf = ConfFallback,
                                    !.root = FallbackRoot(tasks[t].dincident)],
                "conclude", "_fallback_root_cause_analysis", "THINKING",
                T("Evidence pattern matches: latency spike + recent deploy + database metrics"),
                [pattern |-> "connection_pool_exhaustion"])

\* the rule-based path on any other incident
FallbackOther(t) ==
    /\ At(t, "dr_fb")
    /\ FallbackCase(tasks[t].dincident) # "latency"
    /\ UNCHANGED agentVars
    /\ Local(t, [tasks[t] EXCEPT !.pc = "dr_conf", !.conf = ConfFallback,
                                 !.root = FallbackRoot(tasks[t].dincident)])

\* a thought that reports the confidence of the LLM path on every path
ConcludeConfidenceOfLLM(t) ==
    /\ At(t, "dr_conf")
    /\ UNCHANGED agentVars
    /\ Emitting(t, [tasks[t] EXCEPT !.pc = "dr_dec"], "conclude", "determine_root_cause",
                "THINKING",
                <<"Root cause analysis complete. Confidence: ", Percent(ConfLLM)>>,
                [confidence |-> ConfLLM])

\* determine_root_cause: the thought reporting the confidence
ConcludeConfidence(t) ==
    /\ At(t, "dr_conf")
    /\ UNCHANGED agentVars
    /\ Emitting(t, [tasks[t] EXCEPT !.pc = "dr_dec"], "conclude", "determine_root_cause",
                "THINKING",
                <<"Root cause analysis complete. Confidence: ", Percent(tasks[t].conf)>>,
                [confidence |-> tasks[t].conf])

\* determine_root_cause: the decision
ConcludeDecide(t) ==
    /\ At(t, "dr_dec")
    /\ UNCHANGED agentVars
    /\ Emitting(t, [tasks[t] EXCEPT !.pc = "run_ret"], "conclude", "determine_root_cause",
                "DECISION", T("ROOT CAUSE: ") \o tasks[t].root,
                [confidence |-> tasks[t].conf, root_cause |-> tasks[t].root])

\* run: the result returned
RunResult(root_cause) ==
    [kind |-> "run", status |-> "resolved", root_cause |-> root_cause,
     timeline |-> Get(context, "timeline", <<>>)]

\* the value a coroutine returns: run's result, determine_root_cause's root
\* cause, use_tool's result
ReturnValue(task) ==
    IF task.kind = "run" THEN RunResult(task.root)
    ELSE IF task.kind = "conclude" THEN [kind |-> "text", text |-> task.root]
    ELSE [kind |-> "tool", value |-> task.response]

\* return, in run, in determine_root_cause and in use_tool
Return(t) ==
    /\ tasks[t].pc \in {"run_ret", "ut_end"}
    /\ At(t, tasks[t].pc)
    /\ UNCHANGED agentVars
    /\ Local(t, [tasks[t] EXCEPT !.pc = "end", !.status = "returned",
                                 !.result = ReturnValue(tasks[t])])

(***************************************************************************)
(* llm_reason called by the driver.                                        *)
(***************************************************************************)
UserPrompts == { T("What causes memory leaks?") }

StartReason(t, prompt, emit_reasoning) ==
    /\ LoopIdle
    /\ FreeSlot(t)
    /\ tasks' = [tasks EXCEPT ![t] =
           [IdleTask EXCEPT !.kind = "reason", !.pc = "lr0", !.status = "active",
                            !.prompt = prompt, !.emitR = emit_reasoning]]
    /\ UNCHANGED <<agentVars, cur, em, emitted, seen, faults>>

\* llm_reason: if not self.llm_client: raise ValueError(...)
NoLLMError == [cls |-> "ValueError", msg |-> <<"Agent ", AgentName, " has no LLM client configured">>]

\* llm_reason without the guard on llm_client
HasLLMUnchecked == TRUE

HasLLM == llm_client # "None"

LlmReasonStart(t) ==
    /\ At(t, "lr0")
    /\ UNCHANGED agentVars
    /\ IF HasLLM
       THEN Local(t, BeginReason(t, tasks[t]))
       ELSE Raising(t, NoLLMError) /\ UNCHANGED faults

(***************************************************************************)
(* register_tool and use_tool.                                             *)
(***************************************************************************)
ToolNames == {"get_metrics"}
Callables == {"fetch_metrics"}
MissingTool == "missing"
ToolArgs == { [service |-> T("user-api")] }
\* what the tool returns: a string, as its characters; the second one is
\* longer than the summary of use_tool
ToolResults ==
    { <<"p","9","9","=","3","0","0","0","m","s">>,
      [i \in 1..120 |-> IF i % 2 = 1 THEN "m" ELSE "s"] }

\* register_tool
RegisterTool(name, callable) ==
    /\ LoopIdle
    /\ tools' = Put(tools, name, callable)
    /\ UNCHANGED <<event_listeners, context, conversation_history, llm_client,
                   investigation_phase, theories, assigned_tasks, tasks, cur, em,
                   emitted, seen, faults>>

StartUseTool(t, name, kwargs) ==
    /\ LoopIdle
    /\ FreeSlot(t)
    /\ tasks' = [tasks EXCEPT ![t] =
           [IdleTask EXCEPT !.kind = "tool", !.pc = "ut0", !.status = "active",
                            !.tool = name, !.ctx = kwargs]]
    /\ UNCHANGED <<agentVars, cur, em, emitted, seen, faults>>

NotRegisteredError(name) ==
    [cls |-> "ValueError", msg |-> <<"Tool '", name, "' not registered">>]

\* use_tool without the lookup of the name
ToolRegisteredUnchecked(name) == TRUE

\* use_tool: if tool_name not in self.tools
ToolRegistered(name) == name \in DOMAIN tools

\* use_tool on a missing name
UseToolMissing(t) ==
    /\ At(t, "ut0")
    /\ ~ToolRegistered(tasks[t].tool)
    /\ UNCHANGED agentVars
    /\ Raising(t, NotRegisteredError(tasks[t].tool))
    /\ UNCHANGED faults

\* use_tool: the ACTION event
UseToolAction(t) ==
    /\ At(t, "ut0")
    /\ ToolRegistered(tasks[t].tool)
    /\ UNCHANGED agentVars
    /\ Emitting(t, [tasks[t] EXCEPT !.pc = "ut_call"], "use_tool", "use_tool", "ACTION",
                <<"Using tool: ", tasks[t].tool>>,
                [tool |-> tasks[t].tool, args |-> tasks[t].ctx])

\* use_tool: await self.tools[tool_name](**kwargs)
UseToolInvoke(t) ==
    /\ At(t, "ut_call")
    /\ UNCHANGED agentVars
    /\ Local(t, [tasks[t] EXCEPT !.pc = "ut_ret",
                 !.invoked = Append(@, [callable |-> tools[tasks[t].tool],
                                        kwargs |-> tasks[t].ctx,
                                        outcome |-> "pending"])])

\* the tool raises
ToolRaise(t) ==
    /\ At(t, "ut_ret")
    /\ UNCHANGED agentVars
    /\ Fault
    /\ tasks' = Throw([tasks EXCEPT ![t].invoked[Len(tasks[t].invoked)].outcome = "raised"],
                      t, ToolError)
    /\ NoEmit
    /\ cur' = Holder(t, tasks', em')

\* observe(self, observation, **metadata) takes one positional argument
ObserveTakes == 1
\* use_tool calls self.observe(message, {...}): two positional arguments
UseToolObservePasses == 2

ObserveTypeError ==
    [cls |-> "TypeError",
     msg |-> T("BaseAgent.observe() takes 2 positional arguments but 3 were given")]

\* str(result)[:100], result a string as its characters
ResultSummary(result) == SubSeq(result, 1, IF Len(result) < 100 THEN Len(result) ELSE 100)

\* use_tool: result = await ...
ToolReturned(task, result) ==
    [task EXCEPT !.response = result, !.invoked[Len(task.invoked)].outcome = "returned"]

\* the tool returns: use_tool calls observe, then returns the result
UseToolReturn(t, result) ==
    /\ At(t, "ut_ret")
    /\ UNCHANGED agentVars
    /\ IF UseToolObservePasses <= ObserveTakes
       THEN Emitting(t, [ToolReturned(tasks[t], result) EXCEPT !.pc = "ut_end"],
                     "use_tool", "use_tool", "OBSERVATION",
                     <<"Tool '", tasks[t].tool, "' returned results">>,
                     [tool |-> tasks[t].tool, result_summary |-> ResultSummary(result)])
       ELSE /\ tasks' = Throw([tasks EXCEPT ![t] = ToolReturned(tasks[t], result)],
                              t, ObserveTypeError)
            /\ NoEmit
            /\ cur' = Holder(t, tasks', em')
            /\ UNCHANGED faults

(***************************************************************************)
(* receive_theory.                                                         *)
(***************************************************************************)
\* a receive_theory that puts the theory in front
ReceiveTheoryPrepending(theory) ==
    /\ LoopIdle
    /\ theories' = <<theory>> \o theories
    /\ UNCHANGED <<event_listeners, tools, context, conversation_history, llm_client,
                   investigation_phase, assigned_tasks, tasks, faults>>
    /\ Emit(Driver, "receive_theory", "receive_theory",
            AgentEvent("OBSERVATION",
                       T("Received theory: ") \o Get(theory, "description", T("Unknown")),
                       [source |-> Get(theory, "agent", T("Unknown"))],
                       <<Driver, Len(theories) + 1>>))
    /\ cur' = Holder(Driver, tasks, em')

\* receive_theory, called by the driver between two steps of the coroutines
ReceiveTheory(theory) ==
    /\ LoopIdle
    /\ theories' = Append(theories, theory)
    /\ UNCHANGED <<event_listeners, tools, context, conversation_history, llm_client,
                   investigation_phase, assigned_tasks, tasks, faults>>
    /\ Emit(Driver, "receive_theory", "receive_theory",
            AgentEvent("OBSERVATION",
                       T("Received theory: ") \o Get(theory, "description", T("Unknown")),
                       [source |-> Get(theory, "agent", T("Unknown"))],
                       <<Driver, Len(theories) + 1>>))
    /\ cur' = Holder(Driver, tasks, em')

(***************************************************************************)
(* The emitting methods of BaseAgent called from outside the coroutines:   *)
(* emit_event, think, observe, propose_theory, challenge_theory, decide.   *)
(***************************************************************************)
\* emit_event(event_type, content, metadata), called by the driver while no
\* coroutine holds the loop, from the method fn
EmitEvent(fn, etype, content, metadata) ==
    /\ LoopIdle
    /\ UNCHANGED <<agentVars, tasks, faults>>
    /\ Emit(Driver, fn, fn, AgentEvent(etype, content, metadata, <<Driver, emitted + 1>>))
    /\ cur' = Holder(Driver, tasks, em')

\* think(thought, **metadata)
Think(thought, metadata) == EmitEvent("think", "THINKING", thought, metadata)

\* observe(observation, **metadata)
Observe(observation, metadata) ==
    EmitEvent("observe", "OBSERVATION", observation, metadata)

\* propose_theory(theory, confidence, **metadata): metadata['confidence'] = confidence
ProposeTheory(theory, confidence, metadata) ==
    EmitEvent("propose_theory", "THEORY", theory, Put(metadata, "confidence", confidence))

\* challenge_theory(theory_id, challenge, **metadata): metadata['theory_id'] = theory_id
ChallengeTheory(theory_id, challenge, metadata) ==
    EmitEvent("challenge_theory", "CHALLENGE", challenge,
              Put(metadata, "theory_id", theory_id))

\* decide(decision, **metadata)
Decide(decision, metadata) == EmitEvent("decide", "DECISION", decision, metadata)

\* the arguments the driver calls the emitting methods with; a confidence is
\* in percent
\* class EventType
EventType == {"THINKING", "ACTION", "OBSERVATION", "THEORY", "CHALLENGE", "DECISION"}
Proposals ==
    { [theory |-> T("db pool exhausted"), confidence |-> 70, metadata |-> EmptyDict],
      [theory |-> T("bad deploy"), confidence |-> ConfFallback,
       metadata |-> [source |-> T("sre")]] }
Challenges ==
    { [theory_id |-> T("T1"), challenge |-> T("no deploy that day"),
       metadata |-> [by |-> T("sre")]] }
Notes == { [content |-> T("checking dashboards"), metadata |-> EmptyDict] }

\* one call of an emitting method by the driver
DriverEmits ==
    \/ \E ty \in EventType, n \in Notes : EmitEvent("emit_event", ty, n.content, n.metadata)
    \/ \E n \in Notes : Think(n.content, n.metadata)
    \/ \E n \in Notes : Observe(n.content, n.metadata)
    \/ \E pr \in Proposals : ProposeTheory(pr.theory, pr.confidence, pr.metadata)
    \/ \E ch \in Challenges : ChallengeTheory(ch.theory_id, ch.challenge, ch.metadata)
    \/ \E n \in Notes : Decide(n.content, n.metadata)

(***************************************************************************)
(* The streaming client on its own: the constructor of ReasoningLLM,       *)
(* think_and_respond drained by a caller, and simple_query.                *)
(***************************************************************************)
\* an argument left out, an environment variable not set
NoneValue == "None"
ApiKeyArgs == {NoneValue, "", "arg-key"}
NvidiaKeys == {NoneValue, "", "nv-key"}
NgcKeys == {NoneValue, "", "ngc-key"}

\* the truth value of an optional string
Truthy(v) == v # NoneValue /\ v # ""

\* a or b
Or(a, b) == IF Truthy(a) THEN a ELSE b

\* a lookup that prefers NGC_API_KEY
ResolveApiKeyNgcFirst(api_key, nvidia, ngc) ==
    IF api_key = NoneValue THEN Or(ngc, nvidia) ELSE api_key

\* __init__: if api_key is None: api_key = os.getenv(...) or os.getenv(...)
ResolveApiKey(api_key, nvidia, ngc) ==
    IF api_key = NoneValue THEN Or(nvidia, ngc) ELSE api_key

NoApiKeyError ==
    [cls |-> "ValueError",
     msg |-> T("No API key found. Set NVIDIA_API_KEY or NGC_API_KEY environment variable")]

BaseUrl == "https://integrate.api.nvidia.com/v1"

\* ReasoningLLM(api_key=api_key) in an environment with the two variables
ConstructLLM(t, api_key, nvidia, ngc) ==
    /\ LoopIdle
    /\ FreeSlot(t)
    /\ LET key == ResolveApiKey(api_key, nvidia, ngc)
           task == [IdleTask EXCEPT !.kind = "construct", !.pc = "end",
                        !.ctx = [api_key |-> api_key, NVIDIA_API_KEY |-> nvidia,
                                 NGC_API_KEY |-> ngc]]
       IN tasks' = [tasks EXCEPT ![t] =
              IF Truthy(key)
              THEN [task EXCEPT !.status = "returned",
                                !.result = [kind |-> "ReasoningLLM", model |-> Model,
                                            client |-> [base_url |-> BaseUrl,
                                                        api_key |-> key]]]
              ELSE [task EXCEPT !.status = "raised", !.error = NoApiKeyError]]
    /\ UNCHANGED <<agentVars, cur, em, emitted, seen, faults>>

\* the message lists a caller passes to think_and_respond
ClientMessages ==
    LET user == [role |-> "user", content |-> T("Why is latency high?")]
        system == [role |-> "system", content |-> T("You are an expert.")]
        assistant == [role |-> "assistant", content |-> T("Which service?")]
        answer == [role |-> "user", content |-> T("user-api")]
    IN { <<user>>, <<system, user>>, <<user, system>>, <<user, assistant, answer>> }

SystemMessages == { <<>>, T("Be brief.") }

\* the chunks the backend of the client can stream
ClientDeltas ==
    { [choices |-> TRUE, reasoning_content |-> <<"a">>, content |-> <<>>],
      [choices |-> TRUE, reasoning_content |-> <<"b">>, content |-> <<>>],
      [choices |-> TRUE, reasoning_content |-> <<>>, content |-> <<"c">>],
      [choices |-> TRUE, reasoning_content |-> <<>>, content |-> <<"d">>],
      [choices |-> TRUE, reasoning_content |-> <<"e">>, content |-> <<"f">>],
      [choices |-> FALSE, reasoning_content |-> <<"x">>, content |-> <<"y">>] }

\* a caller starts draining think_and_respond(messages)
StartStream(t, messages) ==
    /\ LoopIdle
    /\ FreeSlot(t)
    /\ tasks' = [tasks EXCEPT ![t] =
           [IdleTask EXCEPT !.kind = "stream", !.pc = "ts0", !.status = "active",
                            !.messages = messages]]
    /\ UNCHANGED <<agentVars, cur, em, emitted, seen, faults>>

\* think_and_respond up to the completion call
ThinkAndRespondStart(t) ==
    /\ At(t, "ts0")
    /\ UNCHANGED agentVars
    /\ Local(t, [tasks[t] EXCEPT !.pc = "tr_created",
                                 !.sent = Append(@, CompletionCall(tasks[t].messages))])

\* the caller's loop body: it keeps the element
StreamChunk(t) ==
    /\ At(t, "consume")
    /\ tasks[t].kind = "stream"
    /\ UNCHANGED agentVars
    /\ Local(t, [tasks[t] EXCEPT !.yields = Tail(@),
                                 !.chunks = Append(@, Head(tasks[t].yields)),
                                 !.pc = IF Tail(tasks[t].yields) = <<>> THEN "tr_wait"
                                        ELSE "consume"])

\* the backend stream ends: the generator ends, and so does the caller's loop
StreamEnd(t) ==
    /\ At(t, "tr_wait")
    /\ tasks[t].kind = "stream"
    /\ UNCHANGED agentVars
    /\ Local(t, [tasks[t] EXCEPT !.pc = "end", !.status = "returned",
                                 !.result = [kind |-> "elements",
                                             elements |-> tasks[t].chunks]])

\* a caller starts draining think_and_respond(messages, stream=False)
StartComplete(t, messages) ==
    /\ LoopIdle
    /\ FreeSlot(t)
    /\ tasks' = [tasks EXCEPT ![t] =
           [IdleTask EXCEPT !.kind = "complete", !.pc = "tc0", !.status = "active",
                            !.messages = messages]]
    /\ UNCHANGED <<agentVars, cur, em, emitted, seen, faults>>

\* the completion call with stream disabled
CompletionCallComplete(messages) ==
    [messages |-> SentMessages(messages), model |-> Model, stream |-> FALSE]

\* think_and_respond with stream disabled, up to the completion call
ThinkAndRespondStartComplete(t) ==
    /\ At(t, "tc0")
    /\ UNCHANGED agentVars
    /\ Local(t, [tasks[t] EXCEPT !.pc = "tr_created",
                                 !.sent = Append(@, CompletionCallComplete(tasks[t].messages))])

\* what the backend has to say: the chunks it would stream
Outputs == UNION { [1..n -> ClientDeltas] : n \in 0..MaxClientDeltas }

\* the text of one field over the chunks of an output that have choices
RECURSIVE FieldText(_, _)
FieldText(ds, field) ==
    IF ds = <<>> THEN <<>>
    ELSE (IF Head(ds).choices THEN Head(ds)[field] ELSE <<>>) \o FieldText(Tail(ds), field)

\* the complete responses the backend gives for an output: each field holds
\* the whole text; a field without text is empty or None (not in the record)
CompleteResponses(ds) ==
    LET r == FieldText(ds, "reasoning_content")
        c == FieldText(ds, "content")
        full == [content |-> c, reasoning_content |-> r]
    IN {full}
       \cup (IF r = <<>> THEN {[content |-> c]} ELSE {})
       \cup (IF c = <<>> THEN {[reasoning_content |-> r]} ELSE {})
       \cup (IF r = <<>> /\ c = <<>> THEN {EmptyDict} ELSE {})

\* a generator that yields the content before the reasoning
ToYieldsCompleteContentFirst(message) ==
    (IF Get(message, "content", <<>>) # <<>>
     THEN <<[type |-> "content", text |-> message["content"], model |-> Model]>>
     ELSE <<>>)
    \o (IF Get(message, "reasoning_content", <<>>) # <<>>
        THEN <<[type |-> "reasoning", text |-> message["reasoning_content"],
                model |-> Model]>>
        ELSE <<>>)

\* think_and_respond with stream disabled: the elements the response yields
ToYieldsComplete(message) ==
    (IF Get(message, "reasoning_content", <<>>) # <<>>
     THEN <<[type |-> "reasoning", text |-> message["reasoning_content"],
             model |-> Model]>>
     ELSE <<>>)
    \o (IF Get(message, "content", <<>>) # <<>>
        THEN <<[type |-> "content", text |-> message["content"], model |-> Model]>>
        ELSE <<>>)

\* the backend answers a call with stream disabled by the complete response
BackendComplete(t, ds, message) ==
    /\ At(t, "tr_created")
    /\ ~tasks[t].sent[Len(tasks[t].sent)].stream
    /\ UNCHANGED agentVars
    /\ LET ys == ToYieldsComplete(message) IN
       Local(t, [tasks[t] EXCEPT !.deltas = ds, !.response = message, !.yields = ys,
                                 !.pc = IF ys = <<>> THEN "tc_end" ELSE "consume"])

\* the caller's loop body, stream disabled: it keeps the element
CompleteChunk(t) ==
    /\ At(t, "consume")
    /\ tasks[t].kind = "complete"
    /\ UNCHANGED agentVars
    /\ Local(t, [tasks[t] EXCEPT !.yields = Tail(@),
                                 !.chunks = Append(@, Head(tasks[t].yields)),
                                 !.pc = IF Tail(tasks[t].yields) = <<>> THEN "tc_end"
                                        ELSE "consume"])

\* the generator is over, and so is the caller's loop
CompleteEnd(t) ==
    /\ At(t, "tc_end")
    /\ UNCHANGED agentVars
    /\ Local(t, [tasks[t] EXCEPT !.pc = "end", !.status = "returned",
                                 !.result = [kind |-> "elements",
                                             elements |-> tasks[t].chunks]])

\* simple_query(prompt, system_message)
StartQuery(t, prompt, system_message) ==
    /\ LoopIdle
    /\ FreeSlot(t)
    /\ tasks' = [tasks EXCEPT ![t] =
           [IdleTask EXCEPT !.kind = "query", !.pc = "sq0", !.status = "active",
                            !.prompt = prompt, !.sysctx = system_message]]
    /\ UNCHANGED <<agentVars, cur, em, emitted, seen, faults>>

\* simple_query: the messages
QueryMessages(prompt, system_message) ==
    (IF system_message # <<>>
     THEN <<[role |-> "system", content |-> system_message]>>
     ELSE <<>>) \o <<[role |-> "user", content |-> prompt]>>

\* simple_query up to the completion call of think_and_respond
SimpleQueryStart(t) ==
    /\ At(t, "sq0")
    /\ UNCHANGED agentVars
    /\ LET messages == QueryMessages(tasks[t].prompt, tasks[t].sysctx) IN
       Local(t, [tasks[t] EXCEPT !.pc = "tr_created", !.messages = messages,
                                 !.cparts = <<>>,
                                 !.sent = Append(@, CompletionCall(messages))])

\* a loop body that keeps the text of every element
SimpleQueryChunkKeepsAll(t) ==
    /\ At(t, "consume")
    /\ tasks[t].kind = "query"
    /\ UNCHANGED agentVars
    /\ LET chunk == Head(tasks[t].yields) IN
       Local(t, [tasks[t] EXCEPT !.yields = Tail(@), !.chunks = Append(@, chunk),
                                 !.cparts = Append(@, chunk.text),
                                 !.pc = IF Tail(tasks[t].yields) = <<>> THEN "tr_wait"
                                        ELSE "consume"])

\* simple_query: the loop body
SimpleQueryChunk(t) ==
    /\ At(t, "consume")
    /\ tasks[t].kind = "query"
    /\ UNCHANGED agentVars
    /\ LET chunk == Head(tasks[t].yields) IN
       Local(t, [tasks[t] EXCEPT !.yields = Tail(@), !.chunks = Append(@, chunk),
                                 !.cparts = IF chunk.type = "content"
                                            THEN Append(@, chunk.text) ELSE @,
                                 !.pc = IF Tail(tasks[t].yields) = <<>> THEN "tr_wait"
                                        ELSE "consume"])

\* simple_query: return "".join(content_parts)
SimpleQueryReturn(t) ==
    /\ At(t, "tr_wait")
    /\ tasks[t].kind = "query"
    /\ UNCHANGED agentVars
    /\ Local(t, [tasks[t] EXCEPT !.pc = "end", !.status = "returned",
                                 !.result = [kind |-> "text",
                                             text |-> Concat(tasks[t].cparts)]])

(***************************************************************************)
(* The system.                                                             *)
(***************************************************************************)
\* the steps of run on an agent without LLM client
RunStep(t) ==
    \/ RunStart(t) \/ Assess1(t) \/ Assess2(t) \/ Assess3(t) \/ Assess4(t)
    \/ Delegate0(t) \/ Delegate1(t) \/ Delegate2(t)
    \/ Synthesize0(t) \/ Synthesize2(t)
    \/ Conclude0(t) \/ ConcludeNoLLM(t)
    \/ FallbackLatency(t) \/ FallbackOther(t)
    \/ ConcludeConfidence(t) \/ ConcludeDecide(t) \/ Return(t)

\* the steps that involve the LLM client
ReasonStep(t) ==
    \/ ConcludeUseLLM(t) \/ ConcludeCallLLM(t) \/ LlmReasonStart(t)
    \/ BackendCreateOk(t) \/ (\E d \in Deltas : BackendDelta(t, d))
    \/ LlmReasonChunkEmit(t) \/ LlmReasonChunkSilent(t) \/ LlmReasonDone(t)
    \/ ConcludeExcept(t)

ToolStep(t) ==
    \/ UseToolMissing(t) \/ UseToolAction(t) \/ UseToolInvoke(t)
    \/ (\E r \in ToolResults : UseToolReturn(t, r))

\* the failures of the collaborators: backend and tools
Failure(t) ==
    \/ BackendCreateRaise(t) \/ BackendRaise(t) \/ ToolRaise(t)

\* the driver of Spec sets the agent up, then awaits one coroutine
DriverStep ==
    \/ \E l \in ListenerIds : NoTaskStarted /\ AddEventListener(l)
    \/ \E n \in ToolNames, c \in Callables : NoTaskStarted /\ RegisterTool(n, c)
    \/ \E c \in Contexts : NoTaskStarted /\ StartRun(1, c)
    \/ \E p \in UserPrompts, e \in BOOLEAN : NoTaskStarted /\ StartReason(1, p, e)
    \/ \E n \in ToolNames \cup {MissingTool}, a \in ToolArgs :
          NoTaskStarted /\ StartUseTool(1, n, a)
    \/ \E th \in Theories : Len(theories) < MaxTheories /\ ReceiveTheory(th)

Next ==
    \/ \E t \in TaskIds : RunStep(t)
    \/ \E t \in TaskIds : ReasonStep(t)
    \/ \E t \in TaskIds : ToolStep(t)
    \/ \E t \in TaskIds : Failure(t)
    \/ DeliverReturn
    \/ DeliverRaise
    \/ DriverStep

Spec == Init /\ [][Next]_vars

\* The event loop resumes every ready coroutine, a listener that is called
\* returns or raises, and the backend answers a request and ends its
\* stream: as long as one of these steps is possible, one is taken.
Progress ==
    \/ \E t \in TaskIds : RunStep(t) \/ ReasonStep(t) \/ ToolStep(t) \/ Failure(t)
    \/ DeliverReturn
    \/ DeliverRaise

FairSpec == Spec /\ WF_vars(Progress)

(***************************************************************************)
(* Several runs on one Commander without LLM client: the driver starts up  *)
(* to MaxTasks runs, one after the other or overlapping.                   *)
(***************************************************************************)
InitPair == Init /\ llm_client = "None"

PairDriverStep ==
    \/ \E l \in ListenerIds : AddEventListener(l)
    \/ \E t \in TaskIds, c \in Contexts : StartRun(t, c)

NextPair ==
    \/ \E t \in TaskIds : RunStep(t)
    \/ DeliverReturn
    \/ PairDriverStep

PairSpec == InitPair /\ [][NextPair]_vars

(***************************************************************************)
(* Several llm_reason calls on one agent with an LLM client: the driver    *)
(* starts up to MaxTasks calls, one after the other or overlapping.        *)
(***************************************************************************)
InitReason == Init /\ llm_client = "ReasoningLLM"

ReasonPrompts == UserPrompts \cup { T("Why is latency high?") }

ReasonDriverStep ==
    \/ \E l \in ListenerIds : NoTaskStarted /\ AddEventListener(l)
    \/ \E t \in TaskIds, p \in ReasonPrompts, e \in BOOLEAN : StartReason(t, p, e)

\* the steps of llm_reason and of the generator it drains
LlmReasonStep(t) ==
    \/ LlmReasonStart(t) \/ BackendCreateOk(t)
    \/ (\E d \in Deltas : BackendDelta(t, d))
    \/ LlmReasonChunkEmit(t) \/ LlmReasonChunkSilent(t) \/ LlmReasonDone(t)

NextReason ==
    \/ \E t \in TaskIds : LlmReasonStep(t)
    \/ \E t \in TaskIds : BackendCreateRaise(t) \/ BackendRaise(t)
    \/ DeliverReturn
    \/ DeliverRaise
    \/ ReasonDriverStep

ReasonSpec == InitReason /\ [][NextReason]_vars

(***************************************************************************)
(* delegate_investigation on its own: the driver stores a priority and     *)
(* starts up to MaxTasks calls.                                            *)
(***************************************************************************)
DelegateDriverStep ==
    \/ \E l \in ListenerIds : NoTaskStarted /\ AddEventListener(l)
    \/ \E p \in StoredPriorities :
          /\ NoTaskStarted
          /\ "investigation_priority" \notin DOMAIN context
          /\ UpdateContext(p)
    \/ emitted < MaxDriverEmitted /\ DriverEmits
    \/ \E t \in TaskIds : StartDelegate(t, IncLatency)

DelegateStep(t) ==
    \/ Delegate0(t) \/ Delegate1(t) \/ Delegate2(t) \/ DelegateReturn(t)

NextDelegate ==
    \/ \E t \in TaskIds : DelegateStep(t)
    \/ DeliverReturn
    \/ DeliverRaise
    \/ DelegateDriverStep

DelegateSpec == InitPair /\ [][NextDelegate]_vars

(***************************************************************************)
(* receive_theory during a run: the driver starts one run on a Commander   *)
(* without LLM client and hands it up to MaxReceived theories, before the  *)
(* run, while it is suspended, or after it.                                *)
(***************************************************************************)
\* a full theory record, one without agent, one without any known key
ReceivedTheories ==
    { [agent |-> T("Code Detective"), description |-> T("bad deploy")],
      [description |-> T("pool exhausted")],
      [confidence |-> 70] }

TheoryDriverStep ==
    \/ \E l \in ListenerIds : NoTaskStarted /\ AddEventListener(l)
    \/ \E c \in Contexts : NoTaskStarted /\ StartRun(1, c)
    \/ \E th \in ReceivedTheories : Len(theories) < MaxReceived /\ ReceiveTheory(th)

NextTheory ==
    \/ \E t \in TaskIds : RunStep(t)
    \/ DeliverReturn
    \/ DeliverRaise
    \/ TheoryDriverStep

TheorySpec == InitPair /\ [][NextTheory]_vars

(***************************************************************************)
(* run called twice on one Commander without LLM client: the driver awaits *)
(* the first run, then starts the second.                                  *)
(***************************************************************************)
RerunDriverStep ==
    \/ \E l \in ListenerIds : NoTaskStarted /\ AddEventListener(l)
    \/ \E c \in Contexts : NoTaskStarted /\ StartRun(1, c)
    \/ \E c \in Contexts : Ended(1) /\ StartRun(2, c)

NextRerun ==
    \/ \E t \in TaskIds : RunStep(t)
    \/ DeliverReturn
    \/ DeliverRaise
    \/ RerunDriverStep

RerunSpec == InitPair /\ [][NextRerun]_vars

(***************************************************************************)
(* Sequences of Commander operations: the driver registers listeners and a *)
(* tool, and then calls receive_theory and awaits up to MaxTasks           *)
(* operations, one after the other: run, one of the four phase methods,    *)
(* llm_reason or use_tool.  The backend and the tool may fail.             *)
(***************************************************************************)
OpsContexts == { [incident |-> IncLatency] }
OpsDeltas ==
    { [choices |-> TRUE, reasoning_content |-> <<"a">>, content |-> <<>>],
      [choices |-> TRUE, reasoning_content |-> <<>>, content |-> <<" ", "c">>] }

OpsDriverStep ==
    \/ NoTaskStarted /\ AddEventListener("viz")
    \/ \E n \in ToolNames, c \in Callables : RegisterTool(n, c)
    \/ \E th \in Theories :
          NoActiveTask /\ Len(theories) < MaxReceived /\ ReceiveTheory(th)
    \/ \E t \in TaskIds, c \in OpsContexts : NoActiveTask /\ StartRun(t, c)
    \/ \E t \in TaskIds, ph \in {"assess", "synthesize", "conclude"} :
          NoActiveTask /\ StartPhase(t, ph, IncLatency)
    \/ \E t \in TaskIds : NoActiveTask /\ StartDelegate(t, IncLatency)
    \/ \E t \in TaskIds, p \in UserPrompts, e \in BOOLEAN :
          NoActiveTask /\ StartReason(t, p, e)
    \/ \E t \in TaskIds, n \in ToolNames \cup {MissingTool}, a \in ToolArgs :
          NoActiveTask /\ StartUseTool(t, n, a)

\* the steps of the operations
OpsStep(t) ==
    \/ RunStep(t) \/ DelegateReturn(t) \/ PhaseReturn(t)
    \/ ConcludeUseLLM(t) \/ ConcludeCallLLM(t) \/ LlmReasonStart(t)
    \/ BackendCreateOk(t) \/ (\E d \in OpsDeltas : BackendDelta(t, d))
    \/ LlmReasonChunkEmit(t) \/ LlmReasonChunkSilent(t) \/ LlmReasonDone(t)
    \/ ConcludeExcept(t)
    \/ ToolStep(t)

NextOps ==
    \/ \E t \in TaskIds : OpsStep(t)
    \/ \E t \in TaskIds : Failure(t)
    \/ DeliverReturn
    \/ OpsDriverStep

OpsSpec == Init /\ [][NextOps]_vars

(***************************************************************************)
(* The client without an agent: the driver constructs a ReasoningLLM, or   *)
(* drains one think_and_respond, streaming or not, or awaits one           *)
(* simple_query.                                                           *)
(***************************************************************************)
InitClient == Init /\ llm_client = "None"

ClientDriverStep ==
    \/ \E k \in ApiKeyArgs, nv \in NvidiaKeys, ngc \in NgcKeys :
          NoTaskStarted /\ ConstructLLM(1, k, nv, ngc)
    \/ \E m \in ClientMessages : NoTaskStarted /\ StartStream(1, m)
    \/ \E m \in ClientMessages : NoTaskStarted /\ StartComplete(1, m)
    \/ \E p \in UserPrompts, sm \in SystemMessages : NoTaskStarted /\ StartQuery(1, p, sm)

ClientStep(t) ==
    \/ ThinkAndRespondStart(t) \/ SimpleQueryStart(t) \/ BackendCreateOk(t)
    \/ (\E d \in ClientDeltas : BackendDelta(t, d))
    \/ StreamChunk(t) \/ StreamEnd(t)
    \/ SimpleQueryChunk(t) \/ SimpleQueryReturn(t)
    \/ ThinkAndRespondStartComplete(t)
    \/ (\E ds \in Outputs : \E m \in CompleteResponses(ds) : BackendComplete(t, ds, m))
    \/ CompleteChunk(t) \/ CompleteEnd(t)

NextClient ==
    \/ \E t \in TaskIds : ClientStep(t)
    \/ \E t \in TaskIds : BackendCreateRaise(t) \/ BackendRaise(t)
    \/ ClientDriverStep

ClientSpec == InitClient /\ [][NextClient]_vars

(***************************************************************************)
(* Properties of emit_event.                                               *)
(***************************************************************************)
\* the invocations of the latest emit_event call are the registrations
\* 1..n, each once, in registration order, each with the emitted event
InvokedInOrder(n) ==
    /\ Len(em.calls) = n
    /\ \A k \in 1..n :
          /\ em.calls[k].reg = k
          /\ em.calls[k].listener = event_listeners[k]
          /\ em.calls[k].ev = em.ev

\* C1 as stated: every emit_event call that is over, whichever way it ended,
\* has invoked each registration exactly once, in registration order, with
\* the same event.
C1_EveryCallInvokesAll ==
    em.state \in {"returned", "raised"} => InvokedInOrder(em.nreg)

\* C1 amended: an emit_event call that returns has invoked each registration
\* exactly once, in registration order, with the same event; while it runs,
\* and when a listener raised, exactly the registrations up to the current
\* one were invoked, in order, and the ones after a raising listener are not
\* invoked.
C1_ReturnedCallInvokesAll ==
    /\ em.state = "returned" => InvokedInOrder(em.nreg)
    /\ em.state = "running" => em.i <= em.nreg /\ InvokedInOrder(em.i - 1)
    /\ em.state = "raised" =>
          /\ em.i <= em.nreg
          /\ InvokedInOrder(em.i)
          /\ ListenerMayRaise(em.calls[em.i].listener)

\* an emit_event call has returned after invoking two different listeners
C1_Witness ==
    /\ em.state = "returned"
    /\ em.nreg = 2
    /\ Len(em.calls) = 2
    /\ em.calls[1].listener # em.calls[2].listener

\* C2: a listener is invoked with the event of the emit_event call in
\* progress; it has seen only earlier events before; no later event has been
\* emitted, and the agent's state is the one at the emission: no step of the
\* agent has run between the emission and the delivery.
C2_DeliveredAtEmission ==
    em.state # "none" =>
        \A k \in 1..Len(em.calls) :
            /\ em.calls[k].ev = em.ev
            /\ em.calls[k].prev < em.num
            /\ em.calls[k].latest = em.num
            /\ em.calls[k].view = em.view

\* a listener that has seen an earlier event receives the event of a later
\* phase of run
C2_Witness ==
    /\ em.state = "returned"
    /\ em.op = "delegate"
    /\ Len(em.calls) >= 1
    /\ em.calls[1].prev > 0
    /\ em.view.phase = "delegating"

(***************************************************************************)
(* Properties of run.                                                      *)
(***************************************************************************)
\* run has returned the result record: status resolved and a root-cause string
RunResolved(t) ==
    IF tasks[t].kind = "run" /\ tasks[t].status = "returned"
    THEN /\ tasks[t].result.status = "resolved"
         /\ tasks[t].result.root_cause = tasks[t].root
         /\ DOMAIN tasks[t].result.root_cause = 1..Len(tasks[t].result.root_cause)
    ELSE FALSE

\* a listener raised while run notified it
ListenerRaised(t) ==
    /\ tasks[t].status = "raised"
    /\ tasks[t].error = ListenerError

\* C3: every run that is started, whatever the incident and whatever the LLM
\* client does, eventually returns a result with status "resolved" and a
\* root-cause string, unless a listener raised.
C3_RunResolves ==
    \A t \in TaskIds :
        (tasks[t].kind = "run") ~> (RunResolved(t) \/ ListenerRaised(t))

\* run has resolved an incident without symptom after the backend failed
C3_Witness ==
    /\ RunResolved(1)
    /\ tasks[1].exc = BackendError
    /\ tasks[1].ctx = EmptyDict
    /\ llm_client = "ReasoningLLM"

\* the order of the values of investigation_phase
PhaseRank(p) ==
    CASE p = "initial" -> 0
      [] p = "delegating" -> 1
      [] p = "synthesizing" -> 2
      [] p = "concluding" -> 3

\* run t is in progress and no other coroutine is
RunsAlone(t) ==
    /\ tasks[t].kind = "run"
    /\ Active(t)
    /\ \A u \in TaskIds \ {t} : ~Active(u)

\* C4 as stated: while a run is in progress, the first on a Commander or a
\* later one, investigation_phase never goes back to an earlier value.
C4_PhaseOnlyAdvances ==
    [][\A t \in TaskIds :
          RunsAlone(t) =>
              PhaseRank(investigation_phase') >= PhaseRank(investigation_phase)]_vars

\* the operations of run, in the order run calls them
PhaseOps == <<"assess", "delegate", "synthesize", "conclude">>

OpRank(op) == CHOOSE k \in 1..4 : PhaseOps[k] = op

\* C5: in the events of one run the phases follow one another in the order
\* assess, delegate, synthesize, conclude: no event of an earlier phase comes
\* after an event of a later one, so no phase is repeated, and a run that
\* returned has gone through all four.
C5_PhasesInOrder ==
    \A t \in TaskIds :
        tasks[t].kind = "run" =>
            LET evs == tasks[t].events IN
            /\ \A i, j \in 1..Len(evs) :
                  i < j => OpRank(evs[i].op) <= OpRank(evs[j].op)
            /\ tasks[t].status = "returned" =>
                  /\ \A k \in 1..4 : \E i \in 1..Len(evs) : evs[i].op = PhaseOps[k]
                  /\ evs[Len(evs)].ev.event_type = "DECISION"

\* a run with an LLM client has returned: its events cover the four phases,
\* the streamed reasoning included
C5_Witness ==
    /\ tasks[1].kind = "run"
    /\ tasks[1].status = "returned"
    /\ \E i \in 1..Len(tasks[1].events) : tasks[1].events[i].fn = "llm_reason"
    /\ Len(tasks[1].todo) = 0
    /\ Len(assigned_tasks) >= 1

\* the note the except clause of determine_root_cause emits for error e
FallbackNote(e) ==
    T("LLM reasoning failed: ") \o e.msg \o T(". Falling back to rule-based analysis.")

\* C6: when llm_reason fails inside determine_root_cause, a THINKING event
\* with the fallback note is emitted, the root cause is the rule-based one,
\* the final THINKING and DECISION events carry confidence 0.5, and run does
\* not end with the failure of the LLM.
C6_LLMFailureFallsBack ==
    \A t \in TaskIds :
        (tasks[t].kind = "run" /\ tasks[t].exc # NoErr) =>
            LET evs == tasks[t].events
                n == Len(evs) IN
            /\ tasks[t].error # tasks[t].exc \/ tasks[t].exc = ListenerError
            /\ tasks[t].error # BackendError
            /\ tasks[t].pc \in {"dr_fb", "dr_conf", "dr_dec", "run_ret"} =>
                  \E i \in 1..n :
                      /\ evs[i].ev.event_type = "THINKING"
                      /\ evs[i].ev.content = FallbackNote(tasks[t].exc)
            /\ tasks[t].status = "returned" =>
                  /\ \E i \in 1..n :
                        /\ evs[i].ev.event_type = "THINKING"
                        /\ evs[i].ev.content = FallbackNote(tasks[t].exc)
                  /\ evs[n - 1].ev.event_type = "THINKING"
                  /\ evs[n - 1].ev.metadata.confidence = 50
                  /\ evs[n].ev.event_type = "DECISION"
                  /\ evs[n].ev.metadata.confidence = 50
                  /\ evs[n].ev.metadata.root_cause = FallbackRoot(tasks[t].dincident)
                  /\ tasks[t].result.root_cause = FallbackRoot(tasks[t].dincident)

\* a run on a latency incident has returned the rule-based root cause after
\* the backend failed in mid-stream
C6_Witness ==
    /\ tasks[1].kind = "run"
    /\ tasks[1].status = "returned"
    /\ tasks[1].exc = BackendError
    /\ tasks[1].pulled >= 1
    /\ tasks[1].root = RootLatency

(***************************************************************************)
(* Properties of use_tool and llm_reason.                                  *)
(***************************************************************************)
\* the event types of the events task t emitted
EventTypes(t) == [i \in 1..Len(tasks[t].events) |-> tasks[t].events[i].ev.event_type]

\* C7 as stated: when use_tool is called with a registered name and the tool
\* has returned, use_tool has emitted ACTION before the invocation and
\* OBSERVATION after it, and returns the tool's result.
C7_UseToolObserves ==
    \A t \in TaskIds :
        (/\ tasks[t].kind = "tool"
         /\ Ended(t)
         /\ tasks[t].invoked # <<>>
         /\ tasks[t].invoked[1].outcome = "returned"
         /\ tasks[t].error # ListenerError) =>
            /\ tasks[t].status = "returned"
            /\ EventTypes(t) = <<"ACTION", "OBSERVATION">>
            /\ tasks[t].result = [kind |-> "tool", value |-> tasks[t].response]

\* C8: use_tool with a name that is not registered fails with the error that
\* names the tool as not registered, emits no event, invokes no tool, and
\* leaves tools, context and conversation_history unchanged.
C8_MissingToolFails ==
    [][\A t \in TaskIds :
          (/\ tasks[t].kind = "tool"
           /\ tasks[t].tool \notin DOMAIN tools
           /\ tasks'[t] # tasks[t]) =>
              /\ tasks'[t].status = "raised"
              /\ tasks'[t].error = NotRegisteredError(tasks[t].tool)
              /\ tasks'[t].events = <<>>
              /\ tasks'[t].invoked = <<>>
              /\ UNCHANGED <<tools, context, conversation_history, emitted, em>>]_vars

\* use_tool has failed on the missing name while another tool is registered
\* and a listener is listening
C8_Witness ==
    /\ tasks[1].kind = "tool"
    /\ tasks[1].tool = MissingTool
    /\ tasks[1].status = "raised"
    /\ tasks[1].error = NotRegisteredError(MissingTool)
    /\ DOMAIN tools # {}
    /\ event_listeners # <<>>

\* C9: llm_reason on an agent without LLM client fails with the error that
\* says no LLM client is configured; nothing is appended to
\* conversation_history, no request is sent, and no event is emitted.
C9_NoClientFails ==
    \A t \in TaskIds :
        (tasks[t].kind = "reason" /\ llm_client = "None" /\ tasks[t].pc # "lr0") =>
            /\ tasks[t].status = "raised"
            /\ tasks[t].error = NoLLMError
            /\ tasks[t].events = <<>>
            /\ tasks[t].sent = <<>>
            /\ conversation_history = <<>>
            /\ emitted = Len(theories)

\* llm_reason has failed on an agent without client that has a listener
C9_Witness ==
    /\ tasks[1].kind = "reason"
    /\ llm_client = "None"
    /\ tasks[1].status = "raised"
    /\ tasks[1].error = NoLLMError
    /\ event_listeners # <<>>

\* the reasoning elements among the elements received, in order
ReasoningChunks(t) == SelectSeq(tasks[t].chunks, LAMBDA c : c.type = "reasoning")

\* the events llm_reason emitted in task t, in order
ReasoningEvents(t) == SelectSeq(tasks[t].events, LAMBDA e : e.fn = "llm_reason")

\* C10: with emit_reasoning true the events of llm_reason are one THINKING
\* event per reasoning element received, in order, with the element's text
\* and llm_reasoning true; content elements give no event; with
\* emit_reasoning false llm_reason emits no event.
C10_OneEventPerReasoningChunk ==
    \A t \in TaskIds :
        tasks[t].kind \in {"reason", "run"} =>
            LET evs == ReasoningEvents(t)
                rs == ReasoningChunks(t) IN
            /\ tasks[t].kind = "reason" => Len(evs) = Len(tasks[t].events)
            /\ IF tasks[t].emitR
               THEN /\ Len(evs) = Len(rs)
                    /\ \A i \in 1..Len(rs) :
                          /\ evs[i].ev.event_type = "THINKING"
                          /\ evs[i].ev.content = rs[i].text
                          /\ evs[i].ev.metadata = [llm_reasoning |-> TRUE]
               ELSE evs = <<>>

\* llm_reason with emit_reasoning true has returned after two reasoning
\* elements with different texts and a content element
C10_Witness ==
    /\ tasks[1].kind = "reason"
    /\ tasks[1].emitR
    /\ tasks[1].status = "returned"
    /\ Len(ReasoningChunks(1)) = 2
    /\ ReasoningChunks(1)[1].text # ReasoningChunks(1)[2].text
    /\ Len(tasks[1].chunks) = 3
    /\ Len(tasks[1].events) = 2

(***************************************************************************)
(* Properties of llm_reason's record and of the streaming client.          *)
(***************************************************************************)
\* the concatenated text of the elements of one type, in the order received
TextOf(chunks, type) ==
    Concat([i \in 1..Len(SelectSeq(chunks, LAMBDA c : c.type = type)) |->
               SelectSeq(chunks, LAMBDA c : c.type = type)[i].text])

\* C11: the step in which an llm_reason call returns appends exactly one
\* record at the end of conversation_history: the call's prompt, the
\* concatenation of the reasoning elements received and the concatenation of
\* the content elements received, whatever emit_reasoning is; the call
\* returns that response text; the earlier records stay as they were, and
\* nothing else changes conversation_history.
C11_CompletedCallAppendsRecord ==
    [][/\ \A t \in TaskIds :
            (tasks[t].kind = "reason" /\ Active(t) /\ tasks'[t].status = "returned") =>
                /\ conversation_history' =
                      Append(conversation_history,
                             [prompt |-> tasks[t].prompt,
                              reasoning |-> TextOf(tasks[t].chunks, "reasoning"),
                              response |-> TextOf(tasks[t].chunks, "content")])
                /\ tasks'[t].result = [kind |-> "text",
                                       text |-> TextOf(tasks[t].chunks, "content")]
       /\ conversation_history' # conversation_history =>
             \E t \in TaskIds :
                 /\ Active(t)
                 /\ tasks[t].pc = "tr_wait"
                 /\ tasks'[t].pc # "tr_wait"
                 /\ Len(conversation_history') = Len(conversation_history) + 1]_vars

\* a second llm_reason call has returned after a first one that did not emit
\* its reasoning: two different records, the first with its reasoning text
C11_Witness ==
    /\ Len(conversation_history) = 2
    /\ conversation_history[1] # conversation_history[2]
    /\ conversation_history[1].reasoning # <<>>
    /\ conversation_history[2].response # <<>>
    /\ \E t \in TaskIds :
          /\ tasks[t].kind = "reason"
          /\ tasks[t].status = "returned"
          /\ ~tasks[t].emitR
          /\ TextOf(tasks[t].chunks, "reasoning") = conversation_history[1].reasoning
          /\ tasks[t].prompt = conversation_history[1].prompt

\* type and text of the elements
Tagged(elements) ==
    [i \in 1..Len(elements) |-> <<elements[i].type, elements[i].text>>]

\* what a backend chunk carries: its non-empty fields, each under its own
\* name, the reasoning before the content; nothing when it has no choices
FieldsOf(d) ==
    IF ~d.choices THEN <<>>
    ELSE (IF d.reasoning_content = <<>> THEN <<>>
          ELSE << <<"reasoning", d.reasoning_content>> >>)
         \o (IF d.content = <<>> THEN <<>> ELSE << <<"content", d.content>> >>)

\* the non-empty fields of a backend stream, in emission order
RECURSIVE FieldsOfStream(_)
FieldsOfStream(ds) ==
    IF ds = <<>> THEN <<>>
    ELSE FieldsOfStream(SubSeq(ds, 1, Len(ds) - 1)) \o FieldsOf(ds[Len(ds)])

\* C12: the elements a caller has received from think_and_respond, followed
\* by those of the current backend chunk it has not handled yet, are the
\* non-empty reasoning and content fields of the backend chunks streamed so
\* far, in emission order, each tagged by its field; when the stream has
\* ended the caller holds exactly these elements.
C12_YieldsFieldsInOrder ==
    \A t \in TaskIds :
        tasks[t].kind = "stream" =>
            /\ Tagged(tasks[t].chunks \o tasks[t].yields) = FieldsOfStream(tasks[t].deltas)
            /\ tasks[t].status = "returned" =>
                  /\ tasks[t].yields = <<>>
                  /\ Tagged(tasks[t].result.elements) = FieldsOfStream(tasks[t].deltas)

\* the backend streamed reasoning a, reasoning b, content c, content d and
\* ended: the caller holds the four elements
C12_Witness ==
    /\ tasks[1].kind = "stream"
    /\ tasks[1].status = "returned"
    /\ Tagged(tasks[1].result.elements) =
          << <<"reasoning", <<"a">> >>, <<"reasoning", <<"b">> >>,
             <<"content", <<"c">> >>, <<"content", <<"d">> >> >>

\* the text of the content fields of a backend stream
RECURSIVE ContentOfStream(_)
ContentOfStream(ds) ==
    IF ds = <<>> THEN <<>>
    ELSE (IF Head(ds).choices THEN Head(ds).content ELSE <<>>) \o ContentOfStream(Tail(ds))

\* C13: simple_query returns only when the backend stream has ended, and
\* then returns the concatenation of the content fields streamed, in order,
\* without any reasoning text; a backend error at the call or in mid-stream
\* ends simple_query with that error and without a result.
C13_SimpleQueryReturnsContent ==
    \A t \in TaskIds :
        tasks[t].kind = "query" =>
            /\ tasks[t].status = "returned" =>
                  /\ tasks[t].result = [kind |-> "text",
                                        text |-> ContentOfStream(tasks[t].deltas)]
                  /\ Tagged(tasks[t].chunks) = FieldsOfStream(tasks[t].deltas)
                  /\ faults = 0
            /\ faults > 0 =>
                  /\ tasks[t].status = "raised"
                  /\ tasks[t].error = BackendError
                  /\ tasks[t].result = NoResult

\* simple_query has returned "cd" on reasoning a, b then content c, d
C13_Witness ==
    /\ tasks[1].kind = "query"
    /\ tasks[1].status = "returned"
    /\ Tagged(tasks[1].chunks) =
          << <<"reasoning", <<"a">> >>, <<"reasoning", <<"b">> >>,
             <<"content", <<"c">> >>, <<"content", <<"d">> >> >>
    /\ tasks[1].result.text = <<"c", "d">>

\* C14: the one completion call of think_and_respond carries the caller's
\* messages, in their order, preceded by the system message "/think" exactly
\* when none of them has role system; otherwise it carries them unchanged.
C14_SystemMessagePrepended ==
    \A t \in TaskIds :
        (tasks[t].kind \in {"stream", "query"} /\ tasks[t].sent # <<>>) =>
            LET m == tasks[t].messages
                out == tasks[t].sent[1].messages IN
            /\ Len(tasks[t].sent) = 1
            /\ IF \E i \in 1..Len(m) : m[i].role = "system"
               THEN out = m
               ELSE /\ Len(out) = Len(m) + 1
                    /\ out[1] = [role |-> "system", content |-> T("/think")]
                    /\ \A i \in 1..Len(m) : out[i + 1] = m[i]

\* a call whose system message is not the first message was sent unchanged
C14_Witness ==
    /\ tasks[1].kind = "stream"
    /\ Len(tasks[1].messages) = 2
    /\ tasks[1].messages[1].role = "user"
    /\ tasks[1].messages[2].role = "system"
    /\ tasks[1].sent # <<>>
    /\ tasks[1].sent[1].messages = tasks[1].messages

\* C15: constructing a ReasoningLLM succeeds, with the credential as the
\* client's key, exactly when the credential is not empty, the credential
\* being the api_key argument if one is given, else NVIDIA_API_KEY if set and
\* not empty, else NGC_API_KEY; otherwise it fails with the no-API-key error
\* and no client exists.
C15_ConstructorNeedsCredential ==
    \A t \in TaskIds :
        tasks[t].kind = "construct" =>
            LET arg == tasks[t].ctx.api_key
                nv == tasks[t].ctx.NVIDIA_API_KEY
                ngc == tasks[t].ctx.NGC_API_KEY
                credential == IF arg # "None" THEN arg
                              ELSE IF nv \notin {"None", ""} THEN nv
                              ELSE ngc
            IN IF credential \notin {"None", ""}
               THEN /\ tasks[t].status = "returned"
                    /\ tasks[t].result.client.api_key = credential
               ELSE /\ tasks[t].status = "raised"
                    /\ tasks[t].error = NoApiKeyError
                    /\ tasks[t].result = NoResult

\* a constructor call without argument took NVIDIA_API_KEY although
\* NGC_API_KEY was set too
C15_Witness ==
    /\ tasks[1].kind = "construct"
    /\ tasks[1].ctx.api_key = "None"
    /\ tasks[1].ctx.NVIDIA_API_KEY = "nv-key"
    /\ tasks[1].ctx.NGC_API_KEY = "ngc-key"
    /\ tasks[1].status = "returned"
    /\ tasks[1].result.client.api_key = "nv-key"

(***************************************************************************)
(* Properties of the phases of run.                                        *)
(***************************************************************************)
\* the incident of the context run was called with
IncidentOf(t) == Get(tasks[t].ctx, "incident", EmptyDict)

\* the lowercased symptom of an incident has the word in it
SymptomHas(incident, word) ==
    /\ "symptom" \in DOMAIN incident
    /\ Contains(word, Lower(incident["symptom"]))

\* the events of task t emitted by the phase op
EventsOf(t, op) == SelectSeq(tasks[t].events, LAMBDA e : e.op = op)

\* C16: once assess_incident has decided, context["investigation_priority"]
\* is metrics, recent_changes, logs when the lowercased symptom contains
\* "latency" (with or without "error"), logs, recent_changes, metrics when
\* it contains "error" only, and logs, metrics, recent_changes otherwise,
\* a missing symptom included; the third event of the phase is the THINKING
\* event that narrates this classification and the fourth is a DECISION
\* event whose priority metadata is the stored order.
C16_AssessStoresPriority ==
    \A t \in TaskIds :
        (tasks[t].kind = "run" /\ Len(EventsOf(t, "assess")) >= 4) =>
            LET evs == EventsOf(t, "assess")
                inc == IncidentOf(t)
                order == IF SymptomHas(inc, LATENCY)
                         THEN <<"metrics", "recent_changes", "logs">>
                         ELSE IF SymptomHas(inc, ERROR)
                         THEN <<"logs", "recent_changes", "metrics">>
                         ELSE <<"logs", "metrics", "recent_changes">>
                note == IF SymptomHas(inc, LATENCY)
                        THEN "Latency issue detected. Likely performance-related."
                        ELSE IF SymptomHas(inc, ERROR)
                        THEN "Error spike detected. Likely code or infrastructure issue."
                        ELSE "Unclear symptom. Need comprehensive investigation."
            IN /\ Len(evs) = 4
               /\ context["investigation_priority"] = order
               /\ evs[3].ev.event_type = "THINKING"
               /\ evs[3].ev.content = <<note>>
               /\ evs[4].ev.event_type = "DECISION"
               /\ evs[4].ev.metadata = [priority |-> order]

\* assess_incident has put metrics first for a symptom with both words
C16_Witness ==
    /\ tasks[1].kind = "run"
    /\ SymptomHas(IncidentOf(1), LATENCY)
    /\ SymptomHas(IncidentOf(1), ERROR)
    /\ Len(EventsOf(1, "assess")) = 4
    /\ context["investigation_priority"] = <<"metrics", "recent_changes", "logs">>

\* C17: a run on a Commander without LLM client that has returned took the
\* rule-based path: the root cause is the Unknown string for an empty or
\* missing incident, the connection-pool string when the lowercased symptom
\* contains "latency", else the error-rate string when it contains "error",
\* else the Unknown string; the confidence in the THINKING and DECISION
\* events is 0.5; and the events of the phase have one diagnostic THINKING
\* event, tagged pattern=connection_pool_exhaustion, in the latency case and
\* none in the other cases.
C17_RuleBasedWithoutLLM ==
    \A t \in TaskIds :
        (tasks[t].kind = "run" /\ llm_client = "None" /\ tasks[t].status = "returned") =>
            LET evs == EventsOf(t, "conclude")
                n == Len(evs)
                inc == IncidentOf(t)
                root == IF SymptomHas(inc, LATENCY)
                        THEN "Database connection pool exhaustion due to recent config change"
                        ELSE IF SymptomHas(inc, ERROR)
                        THEN "Increased error rate due to code deployment or external dependency failure"
                        ELSE "Unknown - requires deeper investigation"
            IN /\ tasks[t].result.root_cause = <<root>>
               /\ evs[n].ev.event_type = "DECISION"
               /\ evs[n].ev.metadata = [confidence |-> 50, root_cause |-> <<root>>]
               /\ evs[n - 1].ev.event_type = "THINKING"
               /\ evs[n - 1].ev.metadata = [confidence |-> 50]
               /\ IF SymptomHas(inc, LATENCY)
                  THEN /\ n = 4
                       /\ evs[2].ev.event_type = "THINKING"
                       /\ evs[2].ev.metadata = [pattern |-> "connection_pool_exhaustion"]
                  ELSE n = 3

\* a run without LLM client has returned the connection-pool root cause for
\* a symptom with both words
C17_Witness ==
    /\ tasks[1].kind = "run"
    /\ llm_client = "None"
    /\ tasks[1].status = "returned"
    /\ SymptomHas(IncidentOf(1), ERROR)
    /\ tasks[1].result.root_cause = RootLatency
    /\ Len(EventsOf(1, "conclude")) = 4

\* r is s without its leading and trailing whitespace
IsTrimOf(r, s) ==
    /\ r # <<>> => r[1] \notin Whitespace /\ r[Len(r)] \notin Whitespace
    /\ \E i \in 0..Len(s) :
          /\ i + Len(r) <= Len(s)
          /\ SubSeq(s, i + 1, i + Len(r)) = r
          /\ \A k \in 1..Len(s) : (k <= i \/ k > i + Len(r)) => s[k] \in Whitespace

\* C18: a run with an LLM client whose llm_reason call completed has as
\* root cause the response text without its leading and trailing
\* whitespace, reports confidence 0.85 in its last THINKING event and in its
\* DECISION event, and has no event of the rule-based path: no fallback note
\* and no pattern event.
C18_LLMRootCauseTrimmed ==
    \A t \in TaskIds :
        (/\ tasks[t].kind = "run"
         /\ llm_client # "None"
         /\ tasks[t].exc = NoErr
         /\ tasks[t].status = "returned") =>
            LET evs == EventsOf(t, "conclude")
                n == Len(evs)
                response == TextOf(tasks[t].chunks, "content")
                root == tasks[t].result.root_cause
            IN /\ IsTrimOf(root, response)
               /\ conversation_history[Len(conversation_history)].response = response
               /\ evs[n].ev.event_type = "DECISION"
               /\ evs[n].ev.metadata = [confidence |-> 85, root_cause |-> root]
               /\ evs[n - 1].ev.event_type = "THINKING"
               /\ evs[n - 1].ev.metadata = [confidence |-> 85]
               /\ \A i \in 1..n :
                     /\ evs[i].fn # "_fallback_root_cause_analysis"
                     /\ "pattern" \notin DOMAIN evs[i].ev.metadata
                     /\ evs[i].ev.content[1] # "LLM reasoning failed: "

\* a run has returned the root cause "cd" from a response that began with a
\* space and ended with a newline
C18_Witness ==
    /\ tasks[1].kind = "run"
    /\ tasks[1].status = "returned"
    /\ tasks[1].exc = NoErr
    /\ TextOf(tasks[1].chunks, "content") = <<" ", "c", "d", "\n">>
    /\ tasks[1].result.root_cause = <<"c", "d">>

\* the agent _map_area_to_agent is to give for an area
AgentFor(area) ==
    IF area \in {"metrics", "logs"} THEN "System Investigator"
    ELSE IF area \in {"recent_changes", "git_history"} THEN "Code Detective"
    ELSE "General Investigator"

\* the areas of the stored priority
StoredPriority == Get(context, "investigation_priority", <<>>)

\* the number of areas task t has delegated
Delegated(t) ==
    Len(SelectSeq(EventsOf(t, "delegate"), LAMBDA e : e.ev.event_type = "ACTION"))

\* C19: each step in which delegate_investigation, its THINKING event
\* delivered, delegates an area takes
\* the next area of the stored priority, appends exactly the record {area,
\* assigned_to, status pending} with the agent mapped to the area at the end
\* of assigned_tasks, and emits an ACTION event whose task metadata is that
\* record, right after the THINKING event for the area; nothing else changes
\* assigned_tasks; and the call reaches its delay after one THINKING and one
\* ACTION event per area.
C19_DelegatesEachArea ==
    [][/\ \A t \in TaskIds :
            (tasks[t].pc = "dl2" /\ em.state # "running" /\ tasks'[t] # tasks[t]) =>
                LET area == StoredPriority[Delegated(t) + 1]
                    record == [area |-> area, assigned_to |-> AgentFor(area),
                               status |-> "pending"]
                    evs == tasks'[t].events
                    n == Len(evs)
                IN /\ assigned_tasks' = Append(assigned_tasks, record)
                   /\ n = Len(tasks[t].events) + 1
                   /\ evs[n - 1].ev.event_type = "THINKING"
                   /\ evs[n - 1].ev.content = <<"Need to investigate: ", area>>
                   /\ evs[n].ev.event_type = "ACTION"
                   /\ evs[n].ev.metadata = [task |-> record]
       /\ assigned_tasks' # assigned_tasks =>
             \E t \in TaskIds :
                 tasks[t].pc = "dl2" /\ em.state # "running" /\ tasks'[t] # tasks[t]
       /\ \A t \in TaskIds :
             (tasks[t].pc # "sy0" /\ tasks'[t].pc = "sy0") =>
                 /\ Delegated(t)' = Len(StoredPriority)
                 /\ Len(EventsOf(t, "delegate"))' = 2 * Len(StoredPriority)]_vars

\* a call has delegated git_history, an unknown area and metrics to three
\* different agents and returned
C19_Witness ==
    /\ \E t \in TaskIds : tasks[t].kind = "delegate" /\ tasks[t].status = "returned"
    /\ Len(assigned_tasks) >= 3
    /\ assigned_tasks[1] = [area |-> "git_history", assigned_to |-> "Code Detective",
                            status |-> "pending"]
    /\ assigned_tasks[2] = [area |-> "network", assigned_to |-> "General Investigator",
                            status |-> "pending"]
    /\ assigned_tasks[3] = [area |-> "metrics", assigned_to |-> "System Investigator",
                            status |-> "pending"]

\* emit_event is notifying, or has just notified, the listeners of the
\* OBSERVATION event of synthesize_findings
SynthesisObserved ==
    /\ em.state # "none"
    /\ em.op = "synthesize"
    /\ em.ev.event_type = "OBSERVATION"

\* C20: the OBSERVATION event of synthesize_findings reports as
\* theory_count the number of theories received when it is emitted, the
\* ones received before the run and the ones received while the run was
\* suspended included; no event of a run reports more theories than were
\* received, and the count is 0 when none was.
C20_TheoryCountAtEmission ==
    /\ SynthesisObserved =>
          /\ em.ev.metadata = [theory_count |-> Len(theories)]
          /\ em.view.theories = Len(theories)
    /\ \A t \in TaskIds :
          \A i \in 1..Len(tasks[t].events) :
              LET e == tasks[t].events[i] IN
              (e.op = "synthesize" /\ e.ev.event_type = "OBSERVATION") =>
                  /\ e.ev.metadata.theory_count <= Len(theories)
                  /\ e.ev.metadata.theory_count >= tasks[t].theories0
                  /\ theories = <<>> => e.ev.metadata.theory_count = 0

\* the observation counts a theory that was received after the run began,
\* while the run was suspended in a delay
C20_Witness ==
    /\ SynthesisObserved
    /\ em.state = "returned"
    /\ em.owner = 1
    /\ tasks[1].theories0 = 0
    /\ em.ev.metadata.theory_count = 1
    /\ event_listeners # <<>>

(***************************************************************************)
(* Properties of receive_theory.                                           *)
(***************************************************************************)
\* the event receive_theory is to emit for a theory
TheoryObservation(theory) ==
    [event_type |-> "OBSERVATION",
     content |-> T("Received theory: ")
                   \o (IF "description" \in DOMAIN theory THEN theory["description"]
                       ELSE T("Unknown")),
     source |-> IF "agent" \in DOMAIN theory THEN theory["agent"] ELSE T("Unknown")]

\* the step is one receive_theory call with the theory
ReceivesTheory(theory) ==
    /\ emitted' = emitted + 1
    /\ em'.owner = Driver
    /\ em'.op = "receive_theory"
    /\ em'.num = emitted'
    /\ em'.ev.event_type = TheoryObservation(theory).event_type
    /\ em'.ev.content = TheoryObservation(theory).content
    /\ em'.ev.metadata = [source |-> TheoryObservation(theory).source]

\* C21: each receive_theory call, whatever investigation_phase is, appends
\* exactly the given theory at the end of theories and emits exactly one
\* event, an OBSERVATION event naming the theory, and leaves
\* investigation_phase, assigned_tasks, context and conversation_history as
\* they were; nothing else changes theories.
C21_ReceiveTheoryAppends ==
    [][/\ theories' # theories =>
             \E th \in ReceivedTheories :
                 /\ theories' = Append(theories, th)
                 /\ ReceivesTheory(th)
                 /\ UNCHANGED <<investigation_phase, assigned_tasks, context,
                                conversation_history>>
       /\ (emitted' # emitted /\ em'.op = "receive_theory") =>
             /\ Len(theories') = Len(theories) + 1
             /\ SubSeq(theories', 1, Len(theories)) = theories
             /\ ReceivesTheory(theories'[Len(theories')])]_vars

\* two different theories were received, the second while the run was
\* suspended in the delay of synthesize_findings, with a listener notified
C21_Witness ==
    /\ Len(theories) = 2
    /\ theories[1] # theories[2]
    /\ investigation_phase = "synthesizing"
    /\ tasks[1].theories0 = 1
    /\ assigned_tasks # <<>>
    /\ em.state = "returned"
    /\ em.op = "receive_theory"
    /\ Len(em.calls) >= 1

(***************************************************************************)
(* Properties of determine_root_cause.                                     *)
(***************************************************************************)
\* the path determine_root_cause took in run t
ConcludePath(t) ==
    IF llm_client = "None" THEN "no LLM"
    ELSE IF tasks[t].exc = NoErr THEN "LLM success"
    ELSE "LLM failure"

\* determine_root_cause has returned in run t
Concluded(t) ==
    /\ tasks[t].kind = "run"
    /\ tasks[t].pc = "run_ret" \/ tasks[t].status = "returned"

\* C22: when determine_root_cause has returned, on the LLM path, after an
\* LLM failure and without LLM client, the last two events of the run are a
\* THINKING event that carries the confidence, 0.85 on the LLM path and 0.5
\* on the two others, followed by a DECISION event whose metadata carries
\* the same confidence and as root_cause the value the call returned; when
\* run has returned, the root_cause of its result is the one of this
\* DECISION event, the last event of the run.
C22_ConcludeEndsWithDecision ==
    \A t \in TaskIds :
        Concluded(t) =>
            LET evs == tasks[t].events
                n == Len(evs)
                confidence == IF ConcludePath(t) = "LLM success" THEN 85 ELSE 50
            IN /\ n >= 2
               /\ evs[n - 1].op = "conclude" /\ evs[n].op = "conclude"
               /\ evs[n - 1].ev.event_type = "THINKING"
               /\ evs[n - 1].ev.metadata = [confidence |-> confidence]
               /\ evs[n - 1].ev.content[2] = (IF confidence = 85 THEN "85%" ELSE "50%")
               /\ evs[n].ev.event_type = "DECISION"
               /\ evs[n].ev.metadata.confidence = evs[n - 1].ev.metadata.confidence
               /\ evs[n].ev.metadata.root_cause = tasks[t].root
               /\ evs[n].ev.content = <<"ROOT CAUSE: ">> \o tasks[t].root
               /\ tasks[t].status = "returned" =>
                     tasks[t].result.root_cause = evs[n].ev.metadata.root_cause

\* a run on the error incident has returned after the backend refused the
\* completion call: its last event decides the error-rate root cause
C22_Witness ==
    /\ Concluded(1)
    /\ tasks[1].status = "returned"
    /\ ConcludePath(1) = "LLM failure"
    /\ tasks[1].pulled = 0
    /\ tasks[1].events[Len(tasks[1].events)].ev.metadata =
          [confidence |-> 50, root_cause |-> RootError]
    /\ tasks[1].result.root_cause = RootError

(***************************************************************************)
(* Properties of repeated runs.                                            *)
(***************************************************************************)
\* type, content and metadata of the events task t emitted, in order
EventTriples(t) ==
    [i \in 1..Len(tasks[t].events) |->
        <<tasks[t].events[i].ev.event_type, tasks[t].events[i].ev.content,
          tasks[t].events[i].ev.metadata>>]

\* the rule-based root cause of an incident
RuleBasedRoot(inc) ==
    IF SymptomHas(inc, LATENCY)
    THEN "Database connection pool exhaustion due to recent config change"
    ELSE IF SymptomHas(inc, ERROR)
    THEN "Increased error rate due to code deployment or external dependency failure"
    ELSE "Unknown - requires deeper investigation"

\* the events of run(ctx) on a Commander just constructed, without LLM client
\* and without theories
FreshRunEvents(ctx) ==
    LET inc == IF "incident" \in DOMAIN ctx THEN ctx["incident"] ELSE EmptyDict
        field(k, d) == IF k \in DOMAIN inc THEN inc[k] ELSE <<d>>
        order == IF SymptomHas(inc, LATENCY)
                 THEN <<"metrics", "recent_changes", "logs">>
                 ELSE IF SymptomHas(inc, ERROR)
                 THEN <<"logs", "recent_changes", "metrics">>
                 ELSE <<"logs", "metrics", "recent_changes">>
        note == IF SymptomHas(inc, LATENCY)
                THEN "Latency issue detected. Likely performance-related."
                ELSE IF SymptomHas(inc, ERROR)
                THEN "Error spike detected. Likely code or infrastructure issue."
                ELSE "Unclear symptom. Need comprehensive investigation."
        delegation(a) ==
            << <<"THINKING", <<"Need to investigate: ", a>>, EmptyDict>>,
               <<"ACTION", <<"Delegating ", a, " investigation to ", AgentFor(a)>>,
                 [task |-> [area |-> a, assigned_to |-> AgentFor(a),
                            status |-> "pending"]]>> >>
    IN << <<"THINKING", <<"Beginning incident assessment...">>, EmptyDict>>,
          <<"THINKING",
            <<"Incident: ">> \o field("symptom", "Unknown issue") \o <<" on ">>
               \o field("service", "unknown"),
            [severity |-> field("severity", "unknown")]>>,
          <<"THINKING", <<note>>, EmptyDict>>,
          <<"DECISION",
            <<"Investigation priority: ", order[1], " > ", order[2], " > ", order[3]>>,
            [priority |-> order]>> >>
       \o delegation(order[1]) \o delegation(order[2]) \o delegation(order[3])
       \o << <<"THINKING", <<"Synthesizing findings from investigation teams...">>,
               EmptyDict>>,
             <<"OBSERVATION", <<"Received theories from investigation teams">>,
               [theory_count |-> 0]>>,
             <<"THINKING", <<"Analyzing all evidence to determine root cause...">>,
               EmptyDict>> >>
       \o (IF SymptomHas(inc, LATENCY)
           THEN << <<"THINKING",
                     <<"Evidence pattern matches: latency spike + recent deploy + database metrics">>,
                     [pattern |-> "connection_pool_exhaustion"]>> >>
           ELSE <<>>)
       \o << <<"THINKING", <<"Root cause analysis complete. Confidence: ", "50%">>,
               [confidence |-> 50]>>,
             <<"DECISION", <<"ROOT CAUSE: ", RuleBasedRoot(inc)>>,
               [confidence |-> 50, root_cause |-> <<RuleBasedRoot(inc)>>]>> >>

\* the result of run(ctx) on a Commander just constructed, without LLM client
FreshRunResult(ctx) ==
    [kind |-> "run", status |-> "resolved",
     root_cause |-> <<RuleBasedRoot(IF "incident" \in DOMAIN ctx THEN ctx["incident"]
                                    ELSE EmptyDict)>>,
     timeline |-> <<>>]

\* C23: on a Commander without LLM client, a run and the run awaited after
\* it emit, up to where they have come, the events a run on a fresh
\* Commander emits for the same context, and return the result it returns,
\* whatever the first run was called with and wherever it ended: two runs
\* with the same incident that returned emitted the same events and
\* returned the same root cause.
C23_SecondRunLikeFresh ==
    /\ \A t \in TaskIds :
          tasks[t].kind = "run" =>
              LET fresh == FreshRunEvents(tasks[t].ctx)
                  n == Len(tasks[t].events) IN
              /\ n <= Len(fresh)
              /\ EventTriples(t) = SubSeq(fresh, 1, n)
              /\ tasks[t].status = "returned" =>
                    /\ n = Len(fresh)
                    /\ tasks[t].result = FreshRunResult(tasks[t].ctx)
    /\ (/\ tasks[1].kind = "run" /\ tasks[1].status = "returned"
        /\ tasks[2].kind = "run" /\ tasks[2].status = "returned"
        /\ tasks[1].ctx = tasks[2].ctx) =>
           /\ tasks[2].result = tasks[1].result
           /\ EventTriples(2) = EventTriples(1)

\* the second of two runs on the latency incident has returned, on a
\* Commander that holds the delegation records of both and notified a listener
C23_Witness ==
    /\ tasks[1].status = "returned"
    /\ tasks[2].status = "returned"
    /\ tasks[1].ctx = [incident |-> IncLatency]
    /\ tasks[2].ctx = tasks[1].ctx
    /\ tasks[2].result.root_cause = RootLatency
    /\ Len(assigned_tasks) = 6
    /\ Len(tasks[2].events) = 16
    /\ event_listeners # <<>>

(***************************************************************************)
(* Properties of the client under backend failures.                        *)
(***************************************************************************)
\* C24: a think_and_respond generator a caller drains issues one completion
\* call, none before it is started and never a second one; when the backend
\* fails, at the call or in mid-stream, the caller's loop ends with that
\* error and without a result, the caller holding exactly the elements of
\* the chunks streamed before the failure; after the error the caller
\* receives nothing more and no call is issued.
C24_OneCallNoRetry ==
    /\ [](\A t \in TaskIds :
            tasks[t].kind = "stream" =>
                /\ Len(tasks[t].sent) = (IF tasks[t].pc = "ts0" THEN 0 ELSE 1)
                /\ tasks[t].status = "raised" <=> faults > 0
                /\ faults > 0 =>
                      /\ tasks[t].error = BackendError
                      /\ tasks[t].result = NoResult
                      /\ tasks[t].yields = <<>>
                      /\ Tagged(tasks[t].chunks) = FieldsOfStream(tasks[t].deltas))
    /\ [][\A t \in TaskIds :
            (tasks[t].kind = "stream" /\ tasks[t].status = "raised") =>
                tasks'[t] = tasks[t]]_vars

\* the backend failed after it streamed a reasoning and a content chunk: the
\* caller holds the two elements and the error
C24_Witness ==
    /\ tasks[1].kind = "stream"
    /\ tasks[1].status = "raised"
    /\ tasks[1].error = BackendError
    /\ Len(tasks[1].sent) = 1
    /\ Tagged(tasks[1].chunks) = << <<"reasoning", <<"a">> >>, <<"content", <<"c">> >> >>

(***************************************************************************)
(* Properties of the collections of the Commander.                         *)
(***************************************************************************)
\* b is a with elements added at the end, or a itself
IsPrefix(a, b) == Len(a) <= Len(b) /\ SubSeq(b, 1, Len(a)) = a

\* C25: in every step of every sequence of run, the phase methods,
\* receive_theory, llm_reason, use_tool and add_event_listener, the new
\* values of theories, assigned_tasks, conversation_history and
\* event_listeners begin with the old ones: elements are only added at the
\* end, none is removed, replaced or moved.
C25_AppendOnly ==
    [][/\ IsPrefix(theories, theories')
       /\ IsPrefix(assigned_tasks, assigned_tasks')
       /\ IsPrefix(conversation_history, conversation_history')
       /\ IsPrefix(event_listeners, event_listeners')]_vars

\* after two operations each collection has grown twice: two listeners, two
\* theories, the delegation records of two delegations, two exchanges with
\* the LLM
C25_Witness ==
    /\ Len(event_listeners) = 2
    /\ Len(theories) = 2
    /\ Len(assigned_tasks) = 6
    /\ Len(conversation_history) = 2
    /\ assigned_tasks[4] = assigned_tasks[1]
    /\ \A t \in TaskIds : tasks[t].status = "returned"

(***************************************************************************)
(* Properties of think_and_respond with stream disabled.                   *)
(***************************************************************************)
\* the elements think_and_respond yields in stream mode on the chunks ds
RECURSIVE StreamedElements(_)
StreamedElements(ds) ==
    IF ds = <<>> THEN <<>> ELSE ToYields(Head(ds)) \o StreamedElements(Tail(ds))

\* the number of elements of a type
CountOf(elements, type) == Len(SelectSeq(elements, LAMBDA c : c.type = type))

\* C26: with stream disabled the completion call is issued with stream
\* off, and the caller receives from the complete response at most one
\* reasoning element and at most one content element, the reasoning first,
\* none for a field that is absent or empty and one with the whole text of
\* the field otherwise; the reasoning texts put together, and the content
\* texts put together, are those of the elements the stream mode yields for
\* the same output of the backend.
C26_CompleteModeSamePartition ==
    \A t \in TaskIds :
        (tasks[t].kind = "complete" /\ tasks[t].pc \in {"consume", "tc_end", "end"}
         /\ tasks[t].status # "raised") =>
            LET els == tasks[t].chunks \o tasks[t].yields
                message == tasks[t].response
                streamed == StreamedElements(tasks[t].deltas)
                has(field) == field \in DOMAIN message /\ message[field] # <<>>
            IN /\ tasks[t].sent = <<[messages |-> SentMessages(tasks[t].messages),
                                     model |-> Model, stream |-> FALSE]>>
               /\ Len(els) <= 2
               /\ CountOf(els, "reasoning") = (IF has("reasoning_content") THEN 1 ELSE 0)
               /\ CountOf(els, "content") = (IF has("content") THEN 1 ELSE 0)
               /\ Len(els) = CountOf(els, "reasoning") + CountOf(els, "content")
               /\ Len(els) = 2 => els[1].type = "reasoning" /\ els[2].type = "content"
               /\ \A i \in 1..Len(els) :
                     /\ els[i].text # <<>>
                     /\ els[i].text = message[IF els[i].type = "reasoning"
                                              THEN "reasoning_content" ELSE "content"]
               /\ TextOf(els, "reasoning") = TextOf(streamed, "reasoning")
               /\ TextOf(els, "content") = TextOf(streamed, "content")
               /\ tasks[t].status = "returned" =>
                     tasks[t].yields = <<>> /\ tasks[t].result.elements = els

\* on the output reasoning a, reasoning b, content c, content d the caller
\* has received one reasoning element "ab", then one content element "cd"
C26_Witness ==
    /\ tasks[1].kind = "complete"
    /\ tasks[1].status = "returned"
    /\ Len(tasks[1].deltas) = 4
    /\ Len(StreamedElements(tasks[1].deltas)) = 4
    /\ Tagged(tasks[1].result.elements) =
          << <<"reasoning", <<"a", "b">> >>, <<"content", <<"c", "d">> >> >>

(***************************************************************************)
(* Properties of a listener that raises.                                   *)
(***************************************************************************)
\* in this step a listener raises in the emit_event call in progress
ListenerRaises == em.state = "running" /\ em'.state = "raised"

\* what the step of a raising listener does to emit_event: the call ends
\* at the raising listener without an event returned, the listeners
\* registered after it are not invoked, and the agent is as it was
EmitEndsAtRaise ==
    /\ em'.num = em.num /\ em'.ev = em.ev
    /\ Len(em'.calls) = em.i
    /\ em'.calls[em.i].listener = event_listeners[em.i]
    /\ \A k \in (em.i + 1)..Len(event_listeners) : seen'[k] = seen[k] /\ seen[k] < em.num
    /\ emitted' = emitted
    /\ UNCHANGED agentVars

\* the coroutine that was emitting ends with the listener's error, having
\* emitted nothing more, invoked no tool and returned nothing
EmitterAborted ==
    em.owner # Driver =>
        /\ tasks'[em.owner].status = "raised"
        /\ tasks'[em.owner].error = ListenerError
        /\ tasks'[em.owner].result = NoResult
        /\ tasks'[em.owner].events = tasks[em.owner].events
        /\ tasks'[em.owner].invoked = tasks[em.owner].invoked

\* the event is a reasoning chunk llm_reason emits inside determine_root_cause
EmittedInsideTry == em.op = "conclude" /\ em.fn = "llm_reason"

\* a call that ended at a raising listener is never taken up again
RaisedCallStaysRaised ==
    (em.state = "raised" /\ em' # em) =>
        /\ em'.num = em.num + 1
        /\ em'.calls = <<>>

\* C27 as stated: when a listener raises during emit_event, the listeners
\* registered after it are not invoked for the event, no event is returned,
\* and the operation that was emitting, a Commander phase included, is
\* aborted at that point.
C27_ListenerRaiseAborts ==
    [][/\ ListenerRaises => EmitEndsAtRaise /\ EmitterAborted
       /\ RaisedCallStaysRaised]_vars

\* C27 amended: when a listener raises during emit_event, the listeners
\* registered after it are not invoked for the event and no event is
\* returned; the operation that was emitting is aborted at that point with
\* the listener's error, except that for a reasoning chunk emitted by
\* llm_reason inside determine_root_cause only llm_reason is aborted, without
\* a record in conversation_history: determine_root_cause catches the error
\* and goes on in its except clause.
C27_ListenerRaiseAbortsUnlessCaught ==
    [][/\ ListenerRaises =>
             /\ EmitEndsAtRaise
             /\ IF EmittedInsideTry
                THEN /\ tasks'[em.owner].status = "active"
                     /\ tasks'[em.owner].pc = "dr_except"
                     /\ tasks'[em.owner].exc = ListenerError
                     /\ tasks'[em.owner].events = tasks[em.owner].events
                ELSE EmitterAborted
       /\ RaisedCallStaysRaised]_vars

\* the first of two listeners raised on the ACTION event of use_tool: the
\* second was not called, the tool was not invoked and use_tool has ended
\* with the listener's error
C27_Witness ==
    /\ em.state = "raised"
    /\ em.nreg = 2
    /\ Len(em.calls) = 1
    /\ seen[2] < em.num
    /\ em.op = "use_tool"
    /\ em.owner = 1
    /\ tasks[1].status = "raised"
    /\ tasks[1].error = ListenerError
    /\ tasks[1].invoked = <<>>

\* the position of the last event llm_reason emitted in task t, 0 if none
LastReasoningEvent(t) ==
    LET is == {i \in 1..Len(tasks[t].events) : tasks[t].events[i].fn = "llm_reason"}
    IN IF is = {} THEN 0 ELSE CHOOSE i \in is : \A j \in is : j <= i

\* C28: when a listener raises on a reasoning chunk that llm_reason emits
\* inside determine_root_cause, the run is not aborted: the exception is
\* caught in determine_root_cause, nothing is stored in
\* conversation_history, the next event is the THINKING event with the
\* fallback note naming the listener's error, as after a failure of the
\* LLM, and a run that returns has the rule-based root cause of its
\* incident, with confidence 0.5 in its last THINKING and in its DECISION
\* event.
C28_ListenerRaiseInReasoningFallsBack ==
    \A t \in TaskIds :
        /\ (em.state = "raised" /\ em.owner = t /\ EmittedInsideTry) =>
              /\ tasks[t].status = "active"
              /\ tasks[t].pc = "dr_except"
              /\ tasks[t].exc = ListenerError
        /\ (tasks[t].kind = "run" /\ tasks[t].exc = ListenerError) =>
              LET evs == tasks[t].events
                  n == Len(evs)
                  k == LastReasoningEvent(t)
                  root == RuleBasedRoot(IncidentOf(t)) IN
              /\ llm_client # "None"
              /\ conversation_history = <<>>
              /\ tasks[t].status = "raised" => faults > 1
              /\ k > 0
              /\ evs[k].ev.event_type = "THINKING"
              /\ evs[k].ev.metadata = [llm_reasoning |-> TRUE]
              /\ n > k =>
                    /\ evs[k + 1].ev.event_type = "THINKING"
                    /\ evs[k + 1].ev.content =
                          <<"LLM reasoning failed: ", "listener raised",
                            ". Falling back to rule-based analysis.">>
              /\ tasks[t].status = "returned" =>
                    /\ tasks[t].result.status = "resolved"
                    /\ tasks[t].result.root_cause = <<root>>
                    /\ evs[n - 1].ev.metadata = [confidence |-> 50]
                    /\ evs[n].ev.event_type = "DECISION"
                    /\ evs[n].ev.metadata = [confidence |-> 50, root_cause |-> <<root>>]

\* a run on the latency incident has returned the connection-pool root
\* cause after a listener raised on the second reasoning chunk
C28_Witness ==
    /\ tasks[1].kind = "run"
    /\ tasks[1].status = "returned"
    /\ tasks[1].exc = ListenerError
    /\ Len(ReasoningEvents(1)) = 2
    /\ tasks[1].result.root_cause = RootLatency
    /\ faults = 1

(***************************************************************************)
(* Properties of llm_reason under a failing stream.                        *)
(***************************************************************************)
\* the llm_reason calls that returned
ReturnedCalls == {t \in TaskIds : tasks[t].kind = "reason" /\ tasks[t].status = "returned"}

\* C29: when the backend fails during an llm_reason call, after any number
\* of chunks, the call ends with the backend's error and without a result;
\* the failing step leaves conversation_history as it is, and the call has
\* stored no record: conversation_history holds one record per call that
\* returned; the THINKING events of the reasoning chunks received before
\* the failure stay emitted and delivered: the step takes no event back and
\* changes nothing the listeners have seen.
C29_StreamFailureLeavesNoRecord ==
    /\ [](/\ Len(conversation_history) = Cardinality(ReturnedCalls)
          /\ \A t \in TaskIds :
                (tasks[t].kind = "reason" /\ tasks[t].error = BackendError) =>
                    /\ tasks[t].status = "raised"
                    /\ tasks[t].result = NoResult
                    /\ \A i \in 1..Len(conversation_history) :
                          conversation_history[i].prompt # tasks[t].prompt
                          \/ \E u \in ReturnedCalls : tasks[u].prompt = tasks[t].prompt
                    /\ tasks[t].emitR =>
                          /\ Len(tasks[t].events) = Len(ReasoningChunks(t))
                          /\ \A i \in 1..Len(tasks[t].events) :
                                tasks[t].events[i].ev.content = ReasoningChunks(t)[i].text)
    /\ [][\A t \in TaskIds :
            (/\ tasks[t].kind = "reason"
             /\ Active(t)
             /\ tasks'[t].status = "raised"
             /\ tasks'[t].error = BackendError) =>
                /\ UNCHANGED <<conversation_history, emitted, seen, em>>
                /\ tasks'[t].events = tasks[t].events
                /\ tasks'[t].chunks = tasks[t].chunks]_vars

\* after a call that returned, a second call failed in mid-stream with two
\* reasoning chunks emitted to a listener: conversation_history holds the
\* record of the first call only
C29_Witness ==
    /\ tasks[2].kind = "reason"
    /\ tasks[2].status = "raised"
    /\ tasks[2].error = BackendError
    /\ tasks[2].pulled = 2
    /\ Len(tasks[2].events) = 2
    /\ tasks[1].status = "returned"
    /\ tasks[1].prompt # tasks[2].prompt
    /\ Len(conversation_history) = 1
    /\ conversation_history[1].prompt = tasks[1].prompt
    /\ event_listeners # <<>>
    /\ seen[1] = emitted

(***************************************************************************)
(* Properties of overlapping runs on one Commander.                        *)
(***************************************************************************)
\* the priority order assess_incident computes from an incident
OwnPriority(inc) ==
    IF SymptomHas(inc, LATENCY)
    THEN <<"metrics", "recent_changes", "logs">>
    ELSE IF SymptomHas(inc, ERROR)
    THEN <<"logs", "recent_changes", "metrics">>
    ELSE <<"logs", "metrics", "recent_changes">>

\* the areas task t has delegated, in the order of its ACTION events
DelegatedAreas(t) ==
    LET acts == SelectSeq(EventsOf(t, "delegate"),
                          LAMBDA e : e.ev.event_type = "ACTION")
    IN [i \in 1..Len(acts) |-> acts[i].ev.metadata.task.area]

\* the delegation of every run, overlapping or not, follows the priority
\* order computed from the incident the run was called with
OverlappingDelegationOwnOrder ==
    \A t \in TaskIds :
        tasks[t].kind = "run" =>
            /\ IsPrefix(DelegatedAreas(t), OwnPriority(IncidentOf(t)))
            /\ tasks[t].status = "returned" =>
                  DelegatedAreas(t) = OwnPriority(IncidentOf(t))

\* C30: when two run() calls on one Commander overlap, each call that has
\* returned has as root cause the one derived from the incident passed to
\* that call (without LLM client: the rule-based root cause of its own
\* incident), and the areas each call delegated follow the priority order
\* computed from its own incident.
C30_OverlappingRunsOwnIncident ==
    /\ \A t \in TaskIds :
          (tasks[t].kind = "run" /\ tasks[t].status = "returned") =>
              tasks[t].result.root_cause = <<RuleBasedRoot(IncidentOf(t))>>
    /\ OverlappingDelegationOwnOrder

\* a run on a latency incident, overlapped by a run on an error incident
\* that started while the first was suspended, has returned
C30_Overlapped ==
    /\ tasks[1].kind = "run"
    /\ tasks[1].status = "returned"
    /\ SymptomHas(IncidentOf(1), LATENCY)
    /\ tasks[2].kind = "run"
    /\ ~SymptomHas(IncidentOf(2), LATENCY)
    /\ SymptomHas(IncidentOf(2), ERROR)
    /\ Len(tasks[2].events) > 0
    /\ DelegatedAreas(1) = <<"metrics", "recent_changes", "logs">>
    /\ IsPrefix(DelegatedAreas(2), <<"logs", "recent_changes", "metrics">>)

====
